---- MODULE Spec2Model ----
(***************************************************************************)
(* Traffic-lyt request-shielding layer: generic LRU+TTL cache (used as the *)
(* response cache and as the model registry), fixed-window rate limiter    *)
(* and the request pipeline that orchestrates them.                        *)
(*                                                                         *)
(* The Python modules (app/utils/model_registry.py, response_cache.py,     *)
(* rate limiting) are documented in src/apps/api/docs; their behaviour is  *)
(* taken from those documents and from the design specification.           *)
(***************************************************************************)
EXTENDS Integers, FiniteSets, Sequences, TLC

VARIABLES
  now,       \* the wall clock (seconds, scaled)
  cache,     \* SpecCache: one cache instance
  lastOp,    \* SpecCache: the last cache operation, its result and the cache before it
  nops,      \* SpecCache: operations so far
  buckets,   \* RateLimiter: (client, group) -> RateBucket, created lazily
  debug,     \* the DEBUG setting of the process (FALSE in production)
  lastDec,   \* SpecRate: the last allow() call, its Decision and the bucket before it
  ncalls,    \* SpecRate: allow() calls so far
  callLog,   \* SpecRate: bucket -> the calls counted in it, in order: time,
             \*           window_start of the bucket and decision of each
  store,     \* event store: the set of ingested events
  respCache, \* ResponseCache
  artCache,  \* ArtifactCache (model registry)
  reqs,      \* request -> its state in the pipeline
  versions,  \* the deployed feature_version and RESPONSE_CACHE_VERSION
  served,    \* SpecKey: the requests served so far, with what each derived
  resolved,  \* SpecAnchor: the resolve() calls so far, with their results
  selectedZoneIds, \* map page: the zones selected for comparison
  zonesParam,      \* map page: the `zones` query parameter of the URL
  hotspotsCache,   \* lib/api: key -> entry of the client-side hotspots cache
  promises,        \* lib/api: the hotspots network requests started so far
  aborted,         \* the AbortSignals that have been aborted
  lastHot,         \* SpecHot: the last fetchHotspotsGridCached call
  requestGen,      \* map page: requestGenRef.current
  hotspotsRequestGen, \* map page: hotspotsRequestGenRef.current
  boundsRef,       \* map page: bbox of boundsRef.current, "" while null
  view,            \* map page: generation -> position of its viewport request
  display,         \* map page: the React state the panels render
  timers,          \* map page: the timeouts that are set and have not fired
  retryTimeoutRef, \* map page: retryTimeoutRef.current (a generation or 0)
  loadingDelayRef, \* map page: loadingDelayRef.current (a generation or 0)
  lastStale,       \* history: the last step let an aborted request change display
  keyed,           \* lib/api: two FetchHotspotsParams with their keys and URLs
  prevBboxRef,     \* map page: prevBboxRef.current, <<>> while null
  firstBoundsSetRef, \* map page: firstBoundsSetRef.current
  bounds,          \* map page: the bounds state, <<>> while null
  boundsTimeoutRef, \* map page: boundsTimeoutRef.current (a timer id or 0)
  boundsTimers,    \* map page: the debounce timeouts that are set and not fired
  reports,         \* history: the viewports reported to onBoundsChange
  applied          \* history: the viewports given to setBounds

cacheVars == <<cache, lastOp, nops>>
rateVars == <<buckets, debug, lastDec, ncalls, callLog>>
pipeVars == <<store, respCache, artCache, reqs>>
keyVars == <<versions, served, resolved>>
zoneVars == <<selectedZoneIds, zonesParam>>
hotVars == <<hotspotsCache, promises, aborted, lastHot>>
viewVars == <<requestGen, hotspotsRequestGen, boundsRef, view, display, timers,
              retryTimeoutRef, loadingDelayRef, lastStale>>
debounceVars == <<prevBboxRef, firstBoundsSetRef, bounds, boundsTimeoutRef,
                  boundsTimers, reports, applied>>
moreVars == <<keyed, debounceVars>>
clientVars == <<zoneVars, hotVars, viewVars, moreVars>>
vars == <<now, cache, lastOp, nops, buckets, debug, lastDec, ncalls, callLog,
          store, respCache, artCache, reqs, versions, served, resolved,
          selectedZoneIds, zonesParam, hotspotsCache, promises, aborted,
          lastHot, requestGen, hotspotsRequestGen, boundsRef, view, display,
          timers, retryTimeoutRef, loadingDelayRef, lastStale, keyed,
          prevBboxRef, firstBoundsSetRef, bounds, boundsTimeoutRef,
          boundsTimers, reports, applied>>

(* ----------------------------- bounds --------------------------------- *)
MaxTime == 3        \* the clock runs 0..MaxTime
MaxCalls == 4       \* allow() calls in one behaviour of SpecRate
MaxOps == 4         \* cache operations in one behaviour of SpecCache
MaxItems == 2       \* max_items of a cache (256 by default in the registry)
MaxClock == 2       \* the clock runs 0..MaxClock in Spec
RespTTL == 2        \* response-cache TTL (60 s, scaled)
ArtTTL == 3         \* model-registry TTL (600 s, scaled)

(* ------------------------- generic helpers ---------------------------- *)
Restrict(f, S) == [k \in S |-> f[k]]

Put(f, k, e) == [j \in (DOMAIN f) \cup {k} |-> IF j = k THEN e ELSE f[j]]

NoValue == "none"

(* ------------------- Cache (generic LRU + TTL) ------------------------ *)
\* CacheEntry: {value, expires_at, last_access}
CacheEntry(v, ttl, t) == [value |-> v, expires_at |-> t + ttl, last_access |-> t]

EmptyCache == [entries |-> <<>>, hits |-> 0, misses |-> 0, evictions |-> 0]

Keys(c) == DOMAIN c.entries

\* an entry whose expires_at has passed
Expired(e, t) == e.expires_at <= t

ExpiredKeys(c, t) == {k \in Keys(c) : Expired(c.entries[k], t)}

\* variant: get without the expiry check
CacheGetNoExpiry(c, k, t) ==
  IF k \notin Keys(c)
  THEN [cache |-> [c EXCEPT !.misses = @ + 1], found |-> FALSE, value |-> NoValue]
  ELSE [cache |-> [c EXCEPT !.entries[k].last_access = t, !.hits = @ + 1],
        found |-> TRUE, value |-> c.entries[k].value]

\* get(key) -> (value, found); lazy expiry; a hit refreshes last_access
CacheGet(c, k, t) ==
  IF k \notin Keys(c)
  THEN [cache |-> [c EXCEPT !.misses = @ + 1], found |-> FALSE, value |-> NoValue]
  ELSE IF Expired(c.entries[k], t)
  THEN [cache |-> [c EXCEPT !.entries = Restrict(@, Keys(c) \ {k}),
                            !.misses = @ + 1],
        found |-> FALSE, value |-> NoValue]
  ELSE [cache |-> [c EXCEPT !.entries[k].last_access = t, !.hits = @ + 1],
        found |-> TRUE, value |-> c.entries[k].value]

\* variant: evict in insertion order (the entry closest to expiry)
OldestVictims(entries) ==
  {k \in DOMAIN entries :
     \A j \in DOMAIN entries : entries[k].expires_at <= entries[j].expires_at}

\* candidates for LRU eviction: the entries with the oldest last_access
\* (equal clock readings leave the choice among them open)
LRUVictims(entries) ==
  {k \in DOMAIN entries :
     \A j \in DOMAIN entries : entries[k].last_access <= entries[j].last_access}

\* variant: set without eviction
CacheSetNoEvict(c, k, v, ttl, t) ==
  {[c EXCEPT !.entries = Put(@, k, CacheEntry(v, ttl, t))]}

\* variant: a set of a key the cache holds keeps the entry it has
CacheSetFirstWriter(c, k, v, ttl, t) ==
  IF k \in Keys(c) THEN {c}
  ELSE CacheSetNoEvict(c, k, v, ttl, t)

\* set(key, value, ttl): the caches that can result. A set that would exceed
\* max_items evicts expired entries first, then one least-recently-used entry.
CacheSet(c, k, v, ttl, t) ==
  LET new == CacheEntry(v, ttl, t)
      full == k \notin Keys(c) /\ Cardinality(Keys(c)) >= MaxItems
      live == Keys(c) \ ExpiredKeys(c, t)
      purged == Restrict(c.entries, live)
      nexp == Cardinality(ExpiredKeys(c, t))
  IN IF ~full
     THEN {[c EXCEPT !.entries = Put(@, k, new)]}
     ELSE IF Cardinality(live) < MaxItems
     THEN {[c EXCEPT !.entries = Put(purged, k, new), !.evictions = @ + nexp]}
     ELSE {[c EXCEPT !.entries = Put(Restrict(purged, live \ {x}), k, new),
                     !.evictions = @ + nexp + 1] : x \in LRUVictims(purged)}

\* the characters of an endpoint name
EndpointChars(e) ==
  CASE e = "risk" -> <<"r", "i", "s", "k">>
    [] e = "stats" -> <<"s", "t", "a", "t", "s">>
    [] e = "forecast" -> <<"f", "o", "r", "e", "c", "a", "s", "t">>
    [] OTHER -> <<e>>

\* the stored key "{endpoint}:{sha256(signature)}" as a string; the digest
\* is opaque and stands as one character
KeyString(k) == EndpointChars(k.endpoint) \o <<":", "#">>

\* str.startswith(p)
StartsWith(str, p) ==
  /\ Len(p) <= Len(str)
  /\ \A i \in 1..Len(p) : str[i] = p[i]

\* variant: a global flush
InvalidatePrefixFlush(c, p) == [c EXCEPT !.entries = <<>>]

\* invalidate_prefix(prefix): every entry whose key starts with the prefix
\* is removed
InvalidatePrefix(c, p) ==
  [c EXCEPT !.entries =
     Restrict(@, {k \in Keys(c) : ~StartsWith(KeyString(k), p)})]

\* stats()
Stats(c) == [hits |-> c.hits, misses |-> c.misses, evictions |-> c.evictions,
             keys_count |-> Cardinality(Keys(c))]

(* ------------------- RateLimiter (fixed window) ----------------------- *)
Clients == {"c1", "c2"}
Groups == {"predict", "stats", "internal"}

WindowSeconds == 2  \* 60 s, scaled
LimitPredict == 1   \* predict: 30 req/min, scaled
LimitStats == 2     \* stats: 60 req/min, scaled

\* the "internal" group is unlimited
Unlimited(g) == g = "internal"

\* variant: the limits of the two groups swapped
GroupLimitSwapped(g) == IF g = "predict" THEN LimitStats ELSE LimitPredict

GroupLimit(g) == IF g = "predict" THEN LimitPredict ELSE LimitStats

\* client identification: the peer address (request.client.host); with
\* DEBUG=true the first value of X-Forwarded-For, if the header is present
NoHeader == <<>>
Headers == {NoHeader, <<"c2", "c1">>}

\* variant: the header is honoured whatever the mode
ClientIdTrustHeader(peer, xff, dbg) == IF xff # NoHeader THEN xff[1] ELSE peer

ClientId(peer, xff, dbg) == IF dbg /\ xff # NoHeader THEN xff[1] ELSE peer

\* variant: one bucket per client, shared by its groups
BucketIdClientOnly(client, g) == <<client, "predict">>

\* a bucket belongs to one (client identity, endpoint group) pair
BucketId(client, g) == <<client, g>>

\* variant: the window is taken to have elapsed one second early
WindowElapsedEarly(b, t) == t >= b.window_start + WindowSeconds - 1

\* a bucket whose window has elapsed (or that does not exist yet) starts anew
WindowElapsed(b, t) == t >= b.window_start + WindowSeconds

CurrentBucket(bs, id, t) ==
  IF id \in DOMAIN bs /\ ~WindowElapsed(bs[id], t)
  THEN bs[id]
  ELSE [window_start |-> t, count |-> 0]

\* the request is counted first, then the count is compared with the limit
Admitted(count, limit) == count <= limit

\* allow(client_id, endpoint_group) -> Decision, with the bucket table after it
Allow(bs, client, g, t) ==
  IF Unlimited(g)
  THEN [buckets |-> bs, allowed |-> TRUE, retry_after_seconds |-> 0]
  ELSE LET id == BucketId(client, g)
           b == CurrentBucket(bs, id, t)
           b2 == [b EXCEPT !.count = @ + 1]
           ok == Admitted(b2.count, GroupLimit(g))
       IN [buckets |-> Put(bs, id, b2),
           allowed |-> ok,
           retry_after_seconds |->
             IF ok THEN 0 ELSE b2.window_start + WindowSeconds - t]

(* --------------------------- Normalizer -------------------------------- *)
Null == -1          \* explicit null marker of absent numbers and timestamps
NoBbox == <<>>      \* absent bbox
NoCategory == <<>>  \* absent (or empty) category; a string is a sequence of
                    \* characters

\* raw query parameters are <<name, value>> pairs in the order supplied
HasParam(raw, name) == \E i \in 1..Len(raw) : raw[i][1] = name

ParamValue(raw, name, absent) ==
  IF HasParam(raw, name)
  THEN raw[CHOOSE i \in 1..Len(raw) : raw[i][1] = name][2]
  ELSE absent

\* bbox coordinates are integers in units of 1e-6 degree; rounding to 5
\* decimals is rounding to the nearest multiple of 10
Round5(x) == ((x + 5) \div 10) * 10

\* a bbox is <<west, south, east, north>>; one with inverted coordinates is
\* an InvalidParameter
ValidBbox(b) == b = NoBbox \/ (b[1] <= b[3] /\ b[2] <= b[4])

\* an hour of day outside 0..23 is an InvalidParameter
ValidHour(h) == h = Null \/ (0 <= h /\ h <= 23)

ValidParams(raw) ==
  /\ ValidBbox(ParamValue(raw, "bbox", NoBbox))
  /\ ValidHour(ParamValue(raw, "hour_start", Null))
  /\ ValidHour(ParamValue(raw, "hour_end", Null))

Lower(ch) == IF ch = "P" THEN "p" ELSE IF ch = "Q" THEN "q" ELSE ch

RECURSIVE TrimLeft(_)
TrimLeft(str) ==
  IF str # <<>> /\ Head(str) = " " THEN TrimLeft(Tail(str)) ELSE str

RECURSIVE TrimRight(_)
TrimRight(str) ==
  IF str # <<>> /\ str[Len(str)] = " "
  THEN TrimRight(SubSeq(str, 1, Len(str) - 1))
  ELSE str

Trim(str) == TrimRight(TrimLeft(str))

\* variant: the category enters the key as supplied
KeyCategoryAsGiven(str) == str

\* the category for key purposes: trimmed and lower-cased
KeyCategory(str) == [i \in 1..Len(Trim(str)) |-> Lower(Trim(str)[i])]

\* variant: the bbox is kept as supplied
NormalizeBboxExact(b) == b

NormalizeBbox(b) ==
  IF b = NoBbox THEN NoBbox
  ELSE <<Round5(b[1]), Round5(b[2]), Round5(b[3]), Round5(b[4])>>

\* normalize(raw_params) -> FilterScope; query_category keeps the original
\* case for query execution and is not part of the normalized form
Normalize(raw) ==
  [bbox |-> NormalizeBbox(ParamValue(raw, "bbox", NoBbox)),
   category |-> KeyCategory(ParamValue(raw, "category", NoCategory)),
   query_category |-> Trim(ParamValue(raw, "category", NoCategory)),
   hour_start |-> ParamValue(raw, "hour_start", Null),
   hour_end |-> ParamValue(raw, "hour_end", Null),
   start |-> ParamValue(raw, "start", Null),
   end |-> ParamValue(raw, "end", Null)]

\* the normalized form of a FilterScope, over which its equality is defined
KeyScope(scope) ==
  [bbox |-> scope.bbox, category |-> scope.category,
   hour_start |-> scope.hour_start, hour_end |-> scope.hour_end,
   start |-> scope.start, end |-> scope.end]

\* endpoint-specific parameters of a request (alpha, horizon, ...)
ExtraParams(raw) == ParamValue(raw, "alpha", Null)

NoScope == Normalize(<<>>)

(* ----------------------- event store, anchoring ------------------------ *)
InBbox(e, b) ==
  b = NoBbox \/ (b[1] <= e.lon /\ e.lon <= b[3] /\ b[2] <= e.lat /\ e.lat <= b[4])

\* an hour range may wrap past midnight (22 -> 2 means 22:00-02:00)
InHours(h, hs, he) ==
  \/ hs = Null \/ he = Null
  \/ (hs <= he /\ hs <= h /\ h <= he)
  \/ (hs > he /\ (h >= hs \/ h <= he))

\* variant: the explicit start/end bounds are applied when the data range
\* is discovered
MatchingWithTime(st, scope) ==
  {e \in st : /\ InBbox(e, scope.bbox)
              /\ scope.query_category = NoCategory \/ e.cat = scope.query_category
              /\ InHours(e.hour, scope.hour_start, scope.hour_end)
              /\ scope.start = Null \/ scope.start <= e.ts
              /\ scope.end = Null \/ e.ts <= scope.end}

\* events matching the non-time filters of a scope (never filtered by time)
Matching(st, scope) ==
  {e \in st : /\ InBbox(e, scope.bbox)
              /\ scope.query_category = NoCategory \/ e.cat = scope.query_category
              /\ InHours(e.hour, scope.hour_start, scope.hour_end)}

SetMin(S) == CHOOSE x \in S : \A y \in S : x <= y
SetMax(S) == CHOOSE x \in S : \A y \in S : x >= y

WindowLen == 1      \* length of the anchored window ("last N days")

\* start and end both supplied: the caller pinned an absolute range
Absolute(scope) == scope.start # Null /\ scope.end # Null

\* variant: the wall clock as the end of the relative window
ResolveAnchorWallClock(st, scope) ==
  LET ts == {e.ts : e \in Matching(st, scope)}
  IN [data_min_ts |-> IF ts = {} THEN Null ELSE SetMin(ts),
      data_max_ts |-> IF ts = {} THEN Null ELSE SetMax(ts),
      anchor_ts |-> IF ts = {} THEN Null ELSE SetMax(ts),
      start_ts |-> IF Absolute(scope) THEN scope.start ELSE now - WindowLen,
      end_ts |-> IF Absolute(scope) THEN scope.end ELSE now,
      window_source |-> IF Absolute(scope) THEN "absolute" ELSE "anchored",
      message |-> IF ts = {} THEN "no data" ELSE ""]

\* variant: the relative window laid out from the anchor backwards
ResolveAnchorInverted(st, scope) ==
  LET ts == {e.ts : e \in Matching(st, scope)}
  IN [data_min_ts |-> IF ts = {} THEN Null ELSE SetMin(ts),
      data_max_ts |-> IF ts = {} THEN Null ELSE SetMax(ts),
      anchor_ts |-> IF ts = {} THEN Null ELSE SetMax(ts),
      start_ts |-> IF Absolute(scope) THEN scope.start
                   ELSE IF ts = {} THEN Null ELSE SetMax(ts),
      end_ts |-> IF Absolute(scope) THEN scope.end
                 ELSE IF ts = {} THEN Null ELSE SetMax(ts) - WindowLen,
      window_source |-> IF Absolute(scope) THEN "absolute" ELSE "anchored",
      message |-> IF ts = {} THEN "no data" ELSE ""]

\* get_data_time_range + compute_anchored_window: MIN/MAX(ts) over the
\* scope's non-time filters, anchor_ts = data_max_ts; the window is
\* [start, end] if both were supplied, else [anchor - N, anchor], null if
\* there is no data
ResolveAnchor(st, scope) ==
  LET ts == {e.ts : e \in Matching(st, scope)}
  IN [data_min_ts |-> IF ts = {} THEN Null ELSE SetMin(ts),
      data_max_ts |-> IF ts = {} THEN Null ELSE SetMax(ts),
      anchor_ts |-> IF ts = {} THEN Null ELSE SetMax(ts),
      start_ts |-> IF Absolute(scope) THEN scope.start
                   ELSE IF ts = {} THEN Null ELSE SetMax(ts) - WindowLen,
      end_ts |-> IF Absolute(scope) THEN scope.end
                 ELSE IF ts = {} THEN Null ELSE SetMax(ts),
      window_source |-> IF Absolute(scope) THEN "absolute" ELSE "anchored",
      message |-> IF ts = {} THEN "no data" ELSE ""]

\* the lengths of the recent and baseline ranges of a hotspots request
RecentDays == 1
BaselineDays == 1

\* the hotspot window of a scope without data
NoWindows ==
  [recent |-> [start_ts |-> Null, end_ts |-> Null],
   baseline |-> [start_ts |-> Null, end_ts |-> Null]]

\* the two sub-ranges of a hotspots request, from the anchor alone; null
\* when there is no data
HotspotWindows(a) ==
  IF a.anchor_ts = Null THEN NoWindows
  ELSE [recent |-> [start_ts |-> a.anchor_ts - RecentDays,
                    end_ts |-> a.anchor_ts],
        baseline |-> [start_ts |-> a.anchor_ts - RecentDays - BaselineDays,
                      end_ts |-> a.anchor_ts - RecentDays]]

\* the recent CTE: occurred_at >= start AND occurred_at <= end
RecentEvents(st, scope, w) ==
  {e \in Matching(st, scope) :
     w.recent.start_ts <= e.ts /\ e.ts <= w.recent.end_ts}

\* variant: the baseline range closed at its end
BaselineEventsClosed(st, scope, w) ==
  {e \in Matching(st, scope) :
     w.baseline.start_ts <= e.ts /\ e.ts <= w.baseline.end_ts}

\* the baseline CTE: occurred_at >= start AND occurred_at < end
BaselineEvents(st, scope, w) ==
  {e \in Matching(st, scope) :
     w.baseline.start_ts <= e.ts /\ e.ts < w.baseline.end_ts}

\* the Compute collaborator: an aggregate over the events of the scope
\* inside the effective window
ComputeValue(st, scope, a) ==
  Cardinality({e \in Matching(st, scope) : a.start_ts <= e.ts /\ e.ts <= a.end_ts})

(* -------------------------- SignatureBuilder --------------------------- *)
FeatureVersion == "v1"
ResponseCacheVersion == "v1"

\* the version strings after a manual bump
NextVersion(v) == IF v = "v1" THEN "v2" ELSE v

\* model key "{endpoint}:{sha256(signature)}"; the digest is modelled by the
\* canonical signature itself (name -> value, so independent of the order
\* in which the parameters were supplied)
ModelKey(endpoint, scope, a, extra, ver) ==
  [endpoint |-> endpoint,
   digest |-> <<"model", KeyScope(scope), extra, a.anchor_ts, ver>>]

\* variant: the wall clock in the response key instead of the anchor
ResponseKeyWallClock(endpoint, scope, a, extra, ver) ==
  [endpoint |-> endpoint,
   digest |-> <<"resp", KeyScope(scope), extra, now, a.start_ts, a.end_ts, ver>>]

\* variant: the response key without the normalized filters
ResponseKeyNoScope(endpoint, scope, a, extra, ver) ==
  [endpoint |-> endpoint,
   digest |-> <<"resp", extra, a.anchor_ts, a.start_ts, a.end_ts, ver>>]

\* variant: the response key without anchor and window
ResponseKeyNoAnchor(endpoint, scope, a, extra, ver) ==
  [endpoint |-> endpoint, digest |-> <<"resp", KeyScope(scope), extra, ver>>]

\* variant: the response key without the hour range
ResponseKeyNoHours(endpoint, scope, a, extra, ver) ==
  [endpoint |-> endpoint,
   digest |-> <<"resp", [KeyScope(scope) EXCEPT !.hour_start = Null,
                                                !.hour_end = Null],
                extra, a.anchor_ts, a.start_ts, a.end_ts, ver>>]

\* variant: the response key without the version
ResponseKeyNoVersion(endpoint, scope, a, extra, ver) ==
  [endpoint |-> endpoint,
   digest |-> <<"resp", KeyScope(scope), extra, a.anchor_ts, a.start_ts,
                a.end_ts, ResponseCacheVersion>>]

\* response key "resp:{endpoint}:{sha256(...)}"
ResponseKey(endpoint, scope, a, extra, ver) ==
  [endpoint |-> endpoint,
   digest |-> <<"resp", KeyScope(scope), extra, a.anchor_ts, a.start_ts,
                a.end_ts, ver>>]

\* short_hash(key): the key_hash reported in meta
ShortHash(k) == k.digest

(* --------------------------- RequestPipeline --------------------------- *)
Endpoints == {"risk", "stats"}

\* rate-limit group of an endpoint
GroupOf(endpoint) == IF endpoint = "risk" THEN "predict" ELSE "stats"

\* only the predictive endpoints keep a fitted model in the model registry
UsesModelCache(endpoint) == endpoint = "risk"

NoKey == [endpoint |-> "", digest |-> <<>>]
NoAnchor == [data_min_ts |-> Null, data_max_ts |-> Null, anchor_ts |-> Null,
             start_ts |-> Null, end_ts |-> Null,
             window_source |-> "", message |-> ""]
NoArtifact == [model |-> Null, csrc |-> {}]

\* the response body of a 200; endpoint, scope, src and csrc record which
\* request and which store contents it was computed from
Payload(endpoint, scope, a, art, rkey, akey, mchit, src) ==
  [value |-> art.model, anchor |-> a,
   rc_hit |-> FALSE, rc_key_hash |-> ShortHash(rkey), rc_ttl |-> RespTTL,
   mc_used |-> UsesModelCache(endpoint),
   mc_hit |-> mchit,
   mc_key_hash |-> IF UsesModelCache(endpoint) THEN ShortHash(akey) ELSE <<>>,
   mc_ttl |-> IF UsesModelCache(endpoint) THEN ArtTTL ELSE 0,
   endpoint |-> endpoint, scope |-> scope, src |-> src, csrc |-> art.csrc]

NoPayload == Payload("", NoScope, NoAnchor, NoArtifact, NoKey, NoKey, FALSE, {})

\* variant: a no-data response kept for one time unit only
StoreTTLNoDataShort(a) == IF a.anchor_ts = Null THEN 1 ELSE RespTTL

\* the TTL a response is stored with: no-data responses are cached with the
\* same TTL
StoreTTL(a) == RespTTL

\* a response-cache hit returns the cached payload with hit set to true
AnnotateHit(p) == [p EXCEPT !.rc_hit = TRUE]

NoResp == [status |-> 0, payload |-> NoPayload, group |-> "",
           retry_after_seconds |-> 0, retry_after_header |-> 0]

Ok200(p) == [NoResp EXCEPT !.status = 200, !.payload = p]

ErrorResp(code) == [NoResp EXCEPT !.status = code]

\* variant: Retry-After always the full window
RejectionFullWindow(g, d) ==
  [NoResp EXCEPT !.status = 429, !.group = g,
                 !.retry_after_seconds = d.retry_after_seconds,
                 !.retry_after_header = WindowSeconds]

\* 429: body {detail, group, retry_after_seconds: N}, header Retry-After: N
Rejection(g, d) ==
  [NoResp EXCEPT !.status = 429, !.group = g,
                 !.retry_after_seconds = d.retry_after_seconds,
                 !.retry_after_header = d.retry_after_seconds]

\* variant: the handler ignores the response-cache hit
AfterLookupNoShortCircuit(hit, endpoint) ==
  IF UsesModelCache(endpoint) THEN "art" ELSE "compute"

\* where the handler goes after the response-cache lookup
AfterLookup(hit, endpoint) ==
  IF hit THEN "done"
  ELSE IF UsesModelCache(endpoint) THEN "art" ELSE "compute"

\* variant: the model is retrained although the registry had it
AfterArtLookupRetrain(hit) == "compute"

\* where the handler goes after the model-registry lookup
AfterArtLookup(hit) == IF hit THEN "respstore" ELSE "compute"

\* where the handler goes after a successful Compute
AfterCompute(endpoint) == IF UsesModelCache(endpoint) THEN "artstore" ELSE "respstore"

\* variant: the failed result is stored like a successful one
AfterFailureStore(endpoint) == "respstore"

\* where the handler goes when Compute fails: the error is returned, not cached
AfterFailure(endpoint) == "done"

IdleReq == [pc |-> "idle", client |-> "", endpoint |-> "", raw |-> <<>>,
            scope |-> NoScope, anchor |-> NoAnchor, src |-> {},
            rkey |-> NoKey, akey |-> NoKey, artifact |-> NoArtifact,
            rc_hit |-> FALSE, mc_hit |-> FALSE, resp |-> NoResp,
            trace |-> <<>>, raced |-> FALSE]

(* --------------- SpecRate: the limiter under arbitrary calls ----------- *)
\* the requests of a behaviour; they are interchangeable, so they arrive in
\* order
Slots == {"r1", "r2"}

SlotBefore(a, b) == a = "r1" /\ b = "r2"

NoDec == [peer |-> "", xff |-> NoHeader, client |-> "", group |-> "", t |-> 0,
          allowed |-> TRUE, retry_after_seconds |-> 0, before |-> <<>>]

Tick(bound) ==
  /\ now < bound
  /\ now' = now + 1
  /\ UNCHANGED <<clientVars, cacheVars, keyVars, rateVars, pipeVars>>

\* a request from a peer, with or without an X-Forwarded-For header, is
\* identified and passed to allow()
CallAllow(peer, xff, g) ==
  /\ ncalls < MaxCalls
  /\ LET client == ClientId(peer, xff, debug)
         d == Allow(buckets, client, g, now)
     IN /\ buckets' = d.buckets
        /\ lastDec' = [peer |-> peer, xff |-> xff, client |-> client,
                       group |-> g, t |-> now, allowed |-> d.allowed,
                       retry_after_seconds |-> d.retry_after_seconds,
                       before |-> buckets]
        /\ callLog' =
             IF Unlimited(g) THEN callLog
             ELSE LET id == BucketId(client, g)
                      old == IF id \in DOMAIN callLog THEN callLog[id] ELSE <<>>
                  IN Put(callLog, id,
                         Append(old, [t |-> now,
                                      window_start |-> d.buckets[id].window_start,
                                      allowed |-> d.allowed]))
  /\ ncalls' = ncalls + 1
  /\ UNCHANGED <<clientVars, now, debug, cacheVars, keyVars, pipeVars>>

NextRate ==
  \/ Tick(MaxClock)
  \/ \E peer \in Clients, xff \in Headers, g \in Groups : CallAllow(peer, xff, g)

(* --------------- SpecCache: one cache under arbitrary use ------------- *)
CKeys == {[endpoint |-> e, digest |-> d] : e \in {"risk", "stats"}, d \in {1, 2}}
CValues == {"v1"}
CTTLs == {RespTTL, ArtTTL}

NoOp == [op |-> "init", key |-> [endpoint |-> "", digest |-> 0], t |-> 0,
         found |-> FALSE, value |-> NoValue, before |-> EmptyCache,
         prefix |-> <<>>]

\* the prefixes invalidate_prefix is called with: "risk:" and "s"
Prefixes == {EndpointChars("risk") \o <<":">>, <<"s">>}

OpGet(k) ==
  /\ nops < MaxOps
  /\ LET r == CacheGet(cache, k, now)
     IN /\ cache' = r.cache
        /\ lastOp' = [op |-> "get", key |-> k, t |-> now, found |-> r.found,
                      value |-> r.value, before |-> cache, prefix |-> <<>>]
  /\ nops' = nops + 1
  /\ UNCHANGED <<clientVars, now, keyVars, rateVars, pipeVars>>

OpSet(k, v, ttl) ==
  /\ nops < MaxOps
  /\ \E c2 \in CacheSet(cache, k, v, ttl, now) : cache' = c2
  /\ lastOp' = [op |-> "set", key |-> k, t |-> now, found |-> FALSE,
                value |-> v, before |-> cache, prefix |-> <<>>]
  /\ nops' = nops + 1
  /\ UNCHANGED <<clientVars, now, keyVars, rateVars, pipeVars>>

OpInvalidate(p) ==
  /\ nops < MaxOps
  /\ cache' = InvalidatePrefix(cache, p)
  /\ lastOp' = [op |-> "invalidate", key |-> [endpoint |-> "", digest |-> 0],
                t |-> now, found |-> FALSE, value |-> NoValue, before |-> cache,
                prefix |-> p]
  /\ nops' = nops + 1
  /\ UNCHANGED <<clientVars, now, keyVars, rateVars, pipeVars>>

(* ------------------- map page (Next.js client): zones ------------------ *)
MAX_ZONES == 5

\* the ids of the zones offered for comparison
ZoneIds == 1..(MAX_ZONES + 1)

\* a token of the comma-separated `zones` parameter, as parseInt reads it
Tok(n) == [nan |-> FALSE, n |-> n]
NaNTok == [nan |-> TRUE, n |-> 0]

\* the `zones` parameter is absent (or blank)
NoParam == <<>>

\* parseZonesFromSearchParams: split(','), parseInt, drop NaN and n <= 0
ParseZones(param) ==
  LET kept == SelectSeq(param, LAMBDA t : ~t.nan /\ t.n > 0)
  IN [i \in 1..Len(kept) |-> kept[i].n]

\* ids.join(','), as written to the URL by handleZoneSelectionChange
JoinZones(ids) == [i \in 1..Len(ids) |-> Tok(ids[i])]

\* selectedIds.filter((x) => x !== id)
Without(ids, id) == SelectSeq(ids, LAMBDA x : x # id)

Includes(ids, id) == \E i \in 1..Len(ids) : ids[i] = id

(* ----------- lib/api (Next.js client): fetchHotspotsGridCached ---------- *)
HotTTL == 1          \* HOTSPOTS_CACHE_TTL_MS, in clock units
HotMaxEntries == 1   \* HOTSPOTS_CACHE_MAX_ENTRIES
MaxFetches == 2      \* hotspots network requests in a behaviour

\* hotspotsCacheKey(params): the bbox and the grid size decide it
HotKeys == {"b1", "b2"}

\* AbortSignals are named by the viewport request that owns them; a call
\* may pass none
NoSignal == 0
Signals == 1..2

\* a hotspots network request and the promise of its result, pending until
\* the response arrives or the signal is aborted
Promise(key, sig) == [key |-> key, signal |-> sig, status |-> "pending"]

\* { ts, inFlightPromise } and { data, ts }; `promise` names the request
\* that is awaited or has delivered the data
InFlightEntry(pid, t) == [inflight |-> TRUE, promise |-> pid, ts |-> t]
DataEntry(pid, t) == [inflight |-> FALSE, promise |-> pid, ts |-> t]

\* pruneHotspotsCache(excludeKey): at the size limit, one oldest entry that
\* holds data and is not excludeKey is deleted (any of them on a tie)
PruneHotspotsCache(c, excludeKey) ==
  LET cand == {k \in DOMAIN c : k # excludeKey /\ ~c[k].inflight}
      oldest == {k \in cand : \A j \in cand : c[k].ts <= c[j].ts}
  IN IF Cardinality(DOMAIN c) < HotMaxEntries \/ cand = {} THEN {c}
     ELSE {Restrict(c, DOMAIN c \ {k}) : k \in oldest}

\* variant: an entry in flight is not looked at
FetchHotspotsGridCachedNoDedupe(c, ps, key, sig, t) ==
  IF key \in DOMAIN c /\ ~c[key].inflight /\ t - c[key].ts < HotTTL
  THEN {[cache |-> c, promises |-> ps, kind |-> "data", promise |-> c[key].promise]}
  ELSE {[cache |-> Put(c2, key, InFlightEntry(Len(ps) + 1, t)),
         promises |-> Append(ps, Promise(key, sig)),
         kind |-> "promise", promise |-> Len(ps) + 1]
          : c2 \in PruneHotspotsCache(c, key)}

\* variant: a call that finds the fetch in flight attaches its signal
FetchHotspotsGridCachedOwnSignal(c, ps, key, sig, t) ==
  IF key \in DOMAIN c /\ c[key].inflight
  THEN {[cache |-> c, promises |-> [ps EXCEPT ![c[key].promise].signal = sig],
         kind |-> "promise", promise |-> c[key].promise]}
  ELSE IF key \in DOMAIN c /\ t - c[key].ts < HotTTL
  THEN {[cache |-> c, promises |-> ps, kind |-> "data", promise |-> c[key].promise]}
  ELSE {[cache |-> Put(c2, key, InFlightEntry(Len(ps) + 1, t)),
         promises |-> Append(ps, Promise(key, sig)),
         kind |-> "promise", promise |-> Len(ps) + 1]
          : c2 \in PruneHotspotsCache(c, key)}

\* fetchHotspotsGridCached(params, signal): the caches and requests that can
\* result and what the caller gets: the promise in flight for the key, the
\* fresh data, or the promise of a new network request
FetchHotspotsGridCached(c, ps, key, sig, t) ==
  IF key \in DOMAIN c /\ c[key].inflight
  THEN {[cache |-> c, promises |-> ps, kind |-> "promise", promise |-> c[key].promise]}
  ELSE IF key \in DOMAIN c /\ t - c[key].ts < HotTTL
  THEN {[cache |-> c, promises |-> ps, kind |-> "data", promise |-> c[key].promise]}
  ELSE {[cache |-> Put(c2, key, InFlightEntry(Len(ps) + 1, t)),
         promises |-> Append(ps, Promise(key, sig)),
         kind |-> "promise", promise |-> Len(ps) + 1]
          : c2 \in PruneHotspotsCache(c, key)}

\* the outcomes of a hotspots network request
Outcomes == {"ok", "e429", "e500"}

\* the state of the promise after the response
Settled(outcome) == IF outcome = "ok" THEN "fulfilled" ELSE "rejected"

\* doFetch().then: the data is stored under the key
OnFulfilled(c, pid, key, t) == Put(c, key, DataEntry(pid, t))

\* variant: the entry of a rejected fetch stays
OnRejectedKeep(c, key) == c

\* promise.catch: the key is deleted
OnRejected(c, key) == Restrict(c, DOMAIN c \ {key})

\* the requests a signal's abort rejects
AbortedBy(ps, sig) ==
  {i \in 1..Len(ps) : ps[i].signal = sig /\ ps[i].status = "pending"}

RECURSIVE DeleteKeys(_, _)
DeleteKeys(c, keys) ==
  IF keys = {} THEN c
  ELSE LET k == CHOOSE k \in keys : TRUE
       IN DeleteKeys(OnRejected(c, k), keys \ {k})

\* the promise an entry awaits, 0 when the key has no entry in flight
Awaited(c, key) ==
  IF key \in DOMAIN c /\ c[key].inflight THEN c[key].promise ELSE 0

\* the age of the data of a key, 0 when the key holds no data
Age(c, key, t) ==
  IF key \in DOMAIN c /\ ~c[key].inflight THEN t - c[key].ts ELSE 0

NoHotCall == [key |-> "", signal |-> NoSignal, kind |-> "", promise |-> 0,
              awaited |-> 0, requests |-> 0, age |-> 0]

(* ------------- lib/api (Next.js client): hotspotsCacheKey ---------------- *)
\* an optional field of FetchHotspotsParams: <<>> when undefined, else <<v>>
Undefined == <<>>
Some(v) == <<v>>

\* v ?? d
OrDefault(opt, d) == IF opt = Undefined THEN d ELSE opt[1]

DigitChars == <<"0", "1", "2", "3", "4", "5", "6", "7", "8", "9">>

\* String(n) of a non-negative integer
RECURSIVE ToStr(_)
ToStr(n) ==
  IF n < 10 THEN <<DigitChars[n + 1]>>
  ELSE ToStr(n \div 10) \o <<DigitChars[(n % 10) + 1]>>

\* parts.join('|')
RECURSIVE Join(_)
Join(parts) ==
  IF parts = <<>> THEN <<>>
  ELSE IF Len(parts) = 1 THEN parts[1]
  ELSE parts[1] \o <<"|">> \o Join(Tail(parts))

\* k.push(v) when the field is not null
PushStr(k, opt) == IF opt = Undefined THEN k ELSE Append(k, opt[1])
PushNum(k, opt) == IF opt = Undefined THEN k ELSE Append(k, ToStr(opt[1]))

\* hotspotsCacheKey(params)
HotspotsCacheKey(params) ==
  LET k == <<params.bbox,
             ToStr(OrDefault(params.cell_m, 250)),
             ToStr(OrDefault(params.recent_days, 7)),
             ToStr(OrDefault(params.baseline_days, 30)),
             ToStr(OrDefault(params.limit, 3000))>>
  IN Join(PushStr(PushNum(PushNum(PushStr(PushStr(k, params.start), params.end),
                                  params.hour_start), params.hour_end),
                  params.violation_type))

\* p.set(name, v) when the field is not null
SetStr(p, name, opt) == IF opt = Undefined THEN p ELSE Append(p, <<name, opt[1]>>)
SetNum(p, name, opt) == IF opt = Undefined THEN p ELSE Append(p, <<name, ToStr(opt[1])>>)

\* searchParams(params): the name/value pairs of the query string, in order
SearchParams(params) ==
  LET p == <<<<"bbox", params.bbox>>,
             <<"cell_m", ToStr(OrDefault(params.cell_m, 250))>>,
             <<"recent_days", ToStr(OrDefault(params.recent_days, 7))>>,
             <<"baseline_days", ToStr(OrDefault(params.baseline_days, 30))>>,
             <<"limit", ToStr(OrDefault(params.limit, 3000))>>>>
  IN SetStr(SetNum(SetNum(SetStr(SetStr(p, "start", params.start),
                                 "end", params.end),
                          "hour_start", params.hour_start),
                   "hour_end", params.hour_end),
            "violation_type", params.violation_type)

\* FetchHotspotsParams of the map page: bbox only besides the fixed fields
PlainParams ==
  [bbox |-> <<"b">>, cell_m |-> Undefined, recent_days |-> Undefined,
   baseline_days |-> Undefined, limit |-> Undefined, start |-> Undefined,
   end |-> Undefined, hour_start |-> Undefined, hour_end |-> Undefined,
   violation_type |-> Undefined]

KeyedPair(a, b) ==
  [a |-> a, b |-> b, ka |-> HotspotsCacheKey(a), kb |-> HotspotsCacheKey(b),
   ua |-> SearchParams(a), ub |-> SearchParams(b)]

(* ------------- map page (Next.js client): onBoundsChange ----------------- *)
MaxReports == 4      \* viewport reports in a behaviour

\* bboxString(b)
BboxString(b) ==
  ToStr(b.west) \o <<",">> \o ToStr(b.south) \o <<",">> \o ToStr(b.east)
    \o <<",">> \o ToStr(b.north)

\* the refs and state onBoundsChange reads and writes
DebounceState ==
  [prev |-> prevBboxRef, first |-> firstBoundsSetRef, bounds |-> bounds,
   ref |-> boundsTimeoutRef, timers |-> boundsTimers, applied |-> applied]

\* variant: the pending timeout is not cleared
OnBoundsChangeNoClear(D, b, id) ==
  IF D.prev = BboxString(b) THEN D
  ELSE IF ~D.first
  THEN [D EXCEPT !.prev = BboxString(b), !.first = TRUE, !.bounds = b,
                 !.applied = Append(@, b)]
  ELSE [D EXCEPT !.prev = BboxString(b),
                 !.timers = @ \cup {[id |-> id, b |-> b]},
                 !.ref = id]

\* onBoundsChange(b); id names the timeout that setTimeout returns
OnBoundsChange(D, b, id) ==
  IF D.prev = BboxString(b) THEN D
  ELSE IF ~D.first
  THEN [D EXCEPT !.prev = BboxString(b), !.first = TRUE, !.bounds = b,
                 !.applied = Append(@, b)]
  ELSE [D EXCEPT !.prev = BboxString(b),
                 !.timers = {t \in @ : t.id # D.ref} \cup {[id |-> id, b |-> b]},
                 !.ref = id]

(* ------------- map page (Next.js client): the viewport effect ----------- *)
MaxGen == 2          \* viewport changes in a behaviour

maxAttempts == 3
backoffMs == <<600, 1200, 2400>>
\* jitter(): an integer of 20..99; the two ends
Jitters == {20, 99}

Gens == 1..MaxGen

\* the viewport request of a generation: the main flow of
\* fetchViewportAnalytics (pc) and the hotspots retries that go on after
\* fetchHotspotsWithRetry(0) has returned (rpc); `attempt` is the argument
\* of the current fetchHotspotsWithRetry call, `calls` counts the
\* fetchHotspotsGridCached calls, `awaits` is the promise the call awaits,
\* `last` the outcome of the last call that was answered
NoView == [bbox |-> "", pc |-> "idle", rpc |-> "none", attempt |-> 0,
           calls |-> 0, awaits |-> 0, delay |-> 0, gotStatsMeta |-> FALSE,
           last |-> ""]

\* React state; data is named by the generation that fetched it, 0 is
\* null / the empty list
InitialDisplay ==
  [statsTotal |-> 0, anchorMeta |-> 0, hotspotsCells |-> 0, hotspotsError |-> 0,
   hotspotsRateLimitHint |-> "null", hotspotsLoading |-> FALSE,
   riskLoading |-> FALSE, showLoadingSpinner |-> FALSE, riskData |-> 0,
   forecast30dData |-> 0]

RetryTimer(g) == <<"retry", g>>
LoadingTimer(g) == <<"loading", g>>

\* clearTimeout(ref.current)
ClearTimeout(ts, kind, ref) == ts \ {<<kind, ref>>}

InitClient ==
  /\ requestGen = 0
  /\ hotspotsRequestGen = 0
  /\ boundsRef = ""
  /\ view = [g \in Gens |-> NoView]
  /\ display = InitialDisplay
  /\ timers = {}
  /\ retryTimeoutRef = 0
  /\ loadingDelayRef = 0
  /\ lastStale = FALSE
  /\ keyed = KeyedPair(PlainParams, PlainParams)
  /\ prevBboxRef = <<>>
  /\ firstBoundsSetRef = FALSE
  /\ bounds = <<>>
  /\ boundsTimeoutRef = 0
  /\ boundsTimers = {}
  /\ reports = <<>>
  /\ applied = <<>>
  /\ selectedZoneIds = ParseZones(NoParam)
  /\ zonesParam = NoParam
  /\ hotspotsCache = <<>>
  /\ promises = <<>>
  /\ aborted = {}
  /\ lastHot = NoHotCall

Init ==
  /\ InitClient
  /\ now = 0
  /\ cache = EmptyCache
  /\ lastOp = NoOp
  /\ nops = 0
  /\ buckets = <<>>
  /\ debug = FALSE
  /\ lastDec = NoDec
  /\ ncalls = 0
  /\ callLog = <<>>
  /\ store = {}
  /\ respCache = EmptyCache
  /\ artCache = EmptyCache
  /\ reqs = [r \in Slots |-> IdleReq]
  /\ versions = [feature |-> FeatureVersion, response |-> ResponseCacheVersion]
  /\ served = <<>>
  /\ resolved = <<>>

NextCache ==
  \/ Tick(MaxTime)
  \/ \E k \in CKeys : OpGet(k)
  \/ \E k \in CKeys, v \in CValues, ttl \in CTTLs : OpSet(k, v, ttl)
  \/ \E p \in Prefixes : OpInvalidate(p)

SpecCache == Init /\ [][NextCache]_vars

\* the limiter is exercised in production mode and in DEBUG mode
InitRate ==
  /\ InitClient
  /\ now = 0
  /\ cache = EmptyCache
  /\ lastOp = NoOp
  /\ nops = 0
  /\ buckets = <<>>
  /\ debug \in BOOLEAN
  /\ lastDec = NoDec
  /\ ncalls = 0
  /\ callLog = <<>>
  /\ store = {}
  /\ respCache = EmptyCache
  /\ artCache = EmptyCache
  /\ reqs = [r \in Slots |-> IdleReq]
  /\ versions = [feature |-> FeatureVersion, response |-> ResponseCacheVersion]
  /\ served = <<>>
  /\ resolved = <<>>

SpecRate == InitRate /\ [][NextRate]_vars

(* ------------------ Spec: the request pipeline ------------------------- *)
PipelineClients == {"c1"}
RawBboxes == {<<1, 0, 10, 10>>, <<0, 0, 20, 10>>, <<10, 0, 0, 10>>}
PipelineRaws == {<<<<"bbox", b>>>> : b \in RawBboxes}
Events == {[lon |-> 5, lat |-> 5, cat |-> <<"P">>, hour |-> 23, ts |-> 2],
           [lon |-> 15, lat |-> 5, cat |-> <<"p">>, hour |-> 1, ts |-> 1]}

\* ingestion appends an event to the store (outside this layer)
Ingest(e) ==
  /\ e \notin store
  /\ store' = store \cup {e}
  /\ UNCHANGED <<clientVars, now, cacheVars, keyVars, rateVars, respCache, artCache, reqs>>

\* a request arrives and passes the rate-limit gate, or is rejected by it
Arrive(r, client, endpoint, raw) ==
  /\ reqs[r].pc = "idle"
  /\ \A r0 \in Slots : SlotBefore(r0, r) => reqs[r0].pc # "idle"
  /\ LET d == Allow(buckets, ClientId(client, NoHeader, debug),
                     GroupOf(endpoint), now)
         q == [IdleReq EXCEPT !.client = client, !.endpoint = endpoint,
                              !.raw = raw, !.trace = <<"gate">>]
     IN /\ buckets' = d.buckets
        /\ reqs' = [reqs EXCEPT ![r] =
             IF d.allowed
             THEN [q EXCEPT !.pc = "admitted"]
             ELSE [q EXCEPT !.pc = "done",
                            !.resp = Rejection(GroupOf(endpoint), d)]]
  /\ UNCHANGED <<clientVars, now, cacheVars, keyVars, debug, lastDec, ncalls, callLog, store,
                 respCache, artCache>>

\* Normalizer, TimeAnchorResolver (a store query) and SignatureBuilder
Prepare(r) ==
  /\ reqs[r].pc = "admitted"
  /\ LET q == reqs[r]
         scope == Normalize(q.raw)
         a == ResolveAnchor(store, scope)
     IN reqs' = [reqs EXCEPT ![r] =
          IF ~ValidParams(q.raw)
          THEN [q EXCEPT !.pc = "done", !.resp = ErrorResp(400),
                         !.trace = Append(@, "normalize")]
          ELSE [q EXCEPT !.pc = "lookup", !.scope = scope, !.anchor = a,
                         !.src = Matching(store, scope),
                         !.rkey = ResponseKey(q.endpoint, scope, a,
                                              ExtraParams(q.raw),
                                              versions.response),
                         !.akey = ModelKey(q.endpoint, scope, a,
                                           ExtraParams(q.raw), versions.feature),
                         !.trace = @ \o <<"normalize", "resolve">>]]
  /\ UNCHANGED <<clientVars, now, cacheVars, keyVars, rateVars, store, respCache, artCache>>

\* the request has missed the response cache and has not yet stored or
\* failed
InFlightMiss(q) == q.pc \in {"art", "compute", "artstore", "respstore"}

\* the response cache is checked first; a hit short-circuits; `raced` notes
\* the requests that missed a key while another request had missed it and
\* not yet stored its response
Lookup(r) ==
  /\ reqs[r].pc = "lookup"
  /\ LET q == reqs[r]
         g == CacheGet(respCache, q.rkey, now)
         racing == IF g.found THEN {}
                   ELSE {o \in Slots \ {r} :
                           InFlightMiss(reqs[o]) /\ reqs[o].rkey = q.rkey}
     IN /\ respCache' = g.cache
        /\ reqs' = [o \in Slots |->
             IF o = r
             THEN [q EXCEPT !.pc = AfterLookup(g.found, q.endpoint),
                            !.rc_hit = g.found,
                            !.resp = IF g.found THEN Ok200(AnnotateHit(g.value))
                                     ELSE @,
                            !.trace = Append(@, "rlookup"),
                            !.raced = racing # {}]
             ELSE IF o \in racing THEN [reqs[o] EXCEPT !.raced = TRUE]
             ELSE reqs[o]]
  /\ UNCHANGED <<clientVars, now, cacheVars, keyVars, rateVars, store, artCache>>

\* model registry lookup (risk/forecast)
ArtLookup(r) ==
  /\ reqs[r].pc = "art"
  /\ LET q == reqs[r]
         g == CacheGet(artCache, q.akey, now)
     IN /\ artCache' = g.cache
        /\ reqs' = [reqs EXCEPT ![r] =
             [q EXCEPT !.pc = AfterArtLookup(g.found),
                       !.mc_hit = g.found,
                       !.artifact = IF g.found THEN g.value ELSE @,
                       !.trace = Append(@, "alookup")]]
  /\ UNCHANGED <<clientVars, now, cacheVars, keyVars, rateVars, store, respCache>>

\* the Compute collaborator returns a value
ComputeOk(r) ==
  /\ reqs[r].pc = "compute"
  /\ LET q == reqs[r]
     IN reqs' = [reqs EXCEPT ![r] =
          [q EXCEPT !.pc = AfterCompute(q.endpoint),
                    !.artifact = [model |-> ComputeValue(store, q.scope, q.anchor),
                                  csrc |-> Matching(store, q.scope)],
                    !.trace = Append(@, "compute")]]
  /\ UNCHANGED <<clientVars, now, cacheVars, keyVars, rateVars, store, respCache, artCache>>

\* the Compute collaborator fails: a server error, nothing is cached; a
\* scope without data is rendered as an empty result, never as an error
ComputeFail(r) ==
  /\ reqs[r].pc = "compute"
  /\ reqs[r].anchor.anchor_ts # Null
  /\ reqs' = [reqs EXCEPT ![r] =
       [@ EXCEPT !.pc = AfterFailure(@.endpoint), !.resp = ErrorResp(500),
                 !.trace = Append(@, "compute")]]
  /\ UNCHANGED <<clientVars, now, cacheVars, keyVars, rateVars, store, respCache, artCache>>

\* the computed artifact is stored in the model registry
ArtStore(r) ==
  /\ reqs[r].pc = "artstore"
  /\ LET q == reqs[r]
     IN \E c2 \in CacheSet(artCache, q.akey, q.artifact, ArtTTL, now) :
          artCache' = c2
  /\ reqs' = [reqs EXCEPT ![r] =
       [@ EXCEPT !.pc = "respstore", !.trace = Append(@, "astore")]]
  /\ UNCHANGED <<clientVars, now, cacheVars, keyVars, rateVars, store, respCache>>

\* the response is built, stored in the response cache and returned
RespStore(r) ==
  /\ reqs[r].pc = "respstore"
  /\ LET q == reqs[r]
         p == Payload(q.endpoint, q.scope, q.anchor, q.artifact, q.rkey,
                      q.akey, q.mc_hit, q.src)
     IN /\ \E c2 \in CacheSet(respCache, q.rkey, p, StoreTTL(q.anchor), now) :
             respCache' = c2
        /\ reqs' = [reqs EXCEPT ![r] =
             [q EXCEPT !.pc = "done", !.resp = Ok200(p),
                       !.trace = @ \o <<"rstore", "return">>]]
  /\ UNCHANGED <<clientVars, now, cacheVars, keyVars, rateVars, store, artCache>>

Next ==
  \/ Tick(MaxClock)
  \/ \E e \in Events : Ingest(e)
  \/ \E r \in Slots, c \in PipelineClients, ep \in Endpoints, raw \in PipelineRaws :
       Arrive(r, c, ep, raw)
  \/ \E r \in Slots : Prepare(r)
  \/ \E r \in Slots : Lookup(r)
  \/ \E r \in Slots : ArtLookup(r)
  \/ \E r \in Slots : ComputeOk(r)
  \/ \E r \in Slots : ComputeFail(r)
  \/ \E r \in Slots : ArtStore(r)
  \/ \E r \in Slots : RespStore(r)

Spec == Init /\ [][Next]_vars

(* ------- SpecKey: requests served one at a time, any parameters ------- *)
ExampleBbox1 == <<-74100001, 40600000, -73900000, 40800000>>
ExampleBbox2 == <<-74100000, 40600000, -73900004, 40800000>>
CityBbox == <<0, 0, 20, 10>>

\* the raw parameter sets of the requests
KeyRaws ==
  {<<<<"bbox", ExampleBbox1>>>>,
   <<<<"bbox", ExampleBbox2>>>>,
   <<<<"bbox", CityBbox>>>>,
   <<<<"bbox", CityBbox>>, <<"category", <<"P">>>>>>,
   <<<<"category", <<"P">>>>, <<"bbox", CityBbox>>>>,
   <<<<"bbox", CityBbox>>, <<"category", <<" ", "p">>>>>>,
   <<<<"bbox", CityBbox>>, <<"category", <<>>>>>>,
   <<<<"bbox", CityBbox>>, <<"hour_start", 22>>, <<"hour_end", 2>>>>,
   <<<<"bbox", CityBbox>>, <<"start", 0>>, <<"end", 1>>>>,
   <<<<"bbox", CityBbox>>, <<"start", 1>>>>,
   <<<<"bbox", CityBbox>>, <<"alpha", 1>>>>,
   <<<<"bbox", CityBbox>>, <<"hour_start", 24>>>>}

\* what is recorded of a served request
Served(endpoint, raw, scope, a, rkey, akey, rchit, mchit, resp) ==
  [endpoint |-> endpoint, raw |-> raw, scope |-> scope, anchor |-> a,
   rkey |-> rkey, akey |-> akey, rc_hit |-> rchit, mc_hit |-> mchit,
   resp |-> resp, versions |-> versions]

\* one request taken through the whole pipeline past the rate-limit gate:
\* normalize, resolve, build the keys, look up, compute and store
Serve(endpoint, raw, ok) ==
  /\ Len(served) < Cardinality(Slots)
  /\ LET scope == Normalize(raw)
         a == ResolveAnchor(store, scope)
         extra == ExtraParams(raw)
         rkey == ResponseKey(endpoint, scope, a, extra, versions.response)
         akey == ModelKey(endpoint, scope, a, extra, versions.feature)
         rg == CacheGet(respCache, rkey, now)
         ag == CacheGet(artCache, akey, now)
         afterR == AfterLookup(rg.found, endpoint)
         afterA == IF afterR = "art" THEN AfterArtLookup(ag.found) ELSE afterR
         mchit == afterR = "art" /\ ag.found
         art == IF mchit THEN ag.value
                ELSE [model |-> ComputeValue(store, scope, a),
                      csrc |-> Matching(store, scope)]
         p == Payload(endpoint, scope, a, art, rkey, akey, mchit,
                      Matching(store, scope))
     IN IF ~ValidParams(raw)
        THEN /\ served' = Append(served, Served(endpoint, raw, NoScope, NoAnchor,
                                   NoKey, NoKey, FALSE, FALSE, ErrorResp(400)))
             /\ UNCHANGED <<clientVars, respCache, artCache>>
        ELSE IF afterR = "done"
        THEN /\ respCache' = rg.cache
             /\ artCache' = artCache
             /\ served' = Append(served, Served(endpoint, raw, scope, a, rkey,
                                   akey, TRUE, FALSE, Ok200(AnnotateHit(rg.value))))
        ELSE IF afterA = "compute" /\ ~ok /\ a.anchor_ts # Null
        THEN /\ respCache' = rg.cache
             /\ artCache' = IF afterR = "art" THEN ag.cache ELSE artCache
             /\ served' = Append(served, Served(endpoint, raw, scope, a, rkey,
                                   akey, FALSE, FALSE, ErrorResp(500)))
        ELSE /\ \E c2 \in CacheSet(rg.cache, rkey, p, StoreTTL(a), now) :
                  respCache' = c2
             /\ IF afterR # "art" THEN artCache' = artCache
                ELSE IF mchit THEN artCache' = ag.cache
                ELSE \E c2 \in CacheSet(ag.cache, akey, art, ArtTTL, now) :
                       artCache' = c2
             /\ served' = Append(served, Served(endpoint, raw, scope, a, rkey,
                                   akey, FALSE, mchit, Ok200(p)))
  /\ UNCHANGED <<clientVars, now, cacheVars, rateVars, store, reqs, versions, resolved>>

\* feature_version is bumped by hand
BumpFeature ==
  /\ versions.feature # NextVersion(versions.feature)
  /\ versions' = [versions EXCEPT !.feature = NextVersion(@)]
  /\ UNCHANGED <<clientVars, now, cacheVars, rateVars, pipeVars, served, resolved>>

\* RESPONSE_CACHE_VERSION is bumped by hand
BumpResponse ==
  /\ versions.response # NextVersion(versions.response)
  /\ versions' = [versions EXCEPT !.response = NextVersion(@)]
  /\ UNCHANGED <<clientVars, now, cacheVars, rateVars, pipeVars, served, resolved>>

\* the requests of SpecKey: every parameter set for risk, two for stats
KeyRequests ==
  {<<"risk", raw>> : raw \in KeyRaws}
    \cup {<<"stats", raw>> : raw \in {<<<<"bbox", CityBbox>>>>,
                                      <<<<"bbox", ExampleBbox1>>>>}}

\* the events ingestion can append in SpecKey: same timestamp, categories
\* differing in case
KeyEvents == {[lon |-> 5, lat |-> 5, cat |-> <<"P">>, hour |-> 23, ts |-> 2],
              [lon |-> 15, lat |-> 5, cat |-> <<"p">>, hour |-> 1, ts |-> 2]}

\* two requests in quick succession, data and versions changing around them
NextKey ==
  \/ \E e \in KeyEvents : Ingest(e)
  \/ \E rq \in KeyRequests, ok \in BOOLEAN : Serve(rq[1], rq[2], ok)
  \/ BumpFeature
  \/ BumpResponse

SpecKey == Init /\ [][NextKey]_vars

(* --------- SpecAnchor: the TimeAnchorResolver called over time --------- *)
\* resolve(scope) and the keys the SignatureBuilder derives from its result
Resolve(raw) ==
  /\ Len(resolved) < Cardinality(Slots)
  /\ ValidParams(raw)
  /\ LET scope == Normalize(raw)
         a == ResolveAnchor(store, scope)
         w == HotspotWindows(a)
     IN resolved' = Append(resolved,
          [raw |-> raw, scope |-> scope, anchor |-> a, t |-> now,
           store |-> store,
           hot |-> w,
           recent |-> IF w = NoWindows THEN {}
                      ELSE RecentEvents(store, scope, w),
           baseline |-> IF w = NoWindows THEN {}
                        ELSE BaselineEvents(store, scope, w),
           rkey |-> [ep \in Endpoints |->
                       ResponseKey(ep, scope, a, ExtraParams(raw),
                                   versions.response)],
           akey |-> [ep \in Endpoints |->
                       ModelKey(ep, scope, a, ExtraParams(raw),
                                versions.feature)]])
  /\ UNCHANGED <<clientVars, now, cacheVars, rateVars, pipeVars, versions, served>>

\* the scopes resolved: those of KeyRaws and an explicit range whose start
\* is later than its end (no Normalizer rule rejects it)
AnchorRaws ==
  KeyRaws \cup {<<<<"bbox", CityBbox>>, <<"start", 1>>, <<"end", 0>>>>}

NextAnchor ==
  \/ Tick(MaxClock)
  \/ \E e \in Events : Ingest(e)
  \/ \E raw \in AnchorRaws : Resolve(raw)

SpecAnchor == Init /\ [][NextAnchor]_vars

(* ---------------------- properties of the cache ----------------------- *)
\* the last operation was a set of a new key into a full cache
SetIntoFull ==
  /\ lastOp.op = "set"
  /\ lastOp.key \notin Keys(lastOp.before)
  /\ Cardinality(Keys(lastOp.before)) >= MaxItems

\* keys of the cache before the last operation that are gone after it
Evicted == Keys(lastOp.before) \ Keys(cache)

\* C6: a set into a full cache removes every already-expired entry; if none
\* was expired it removes exactly one entry, one whose last_access is the
\* oldest, and otherwise no live entry; a get hit refreshes last_access.
C6_EvictExpiredThenLRU ==
  /\ SetIntoFull =>
       LET b == lastOp.before
           exp == {k \in Keys(b) : b.entries[k].expires_at <= lastOp.t}
       IN /\ exp \cap Keys(cache) = {}
          /\ exp # {} => Evicted = exp
          /\ exp = {} =>
               /\ Cardinality(Evicted) = 1
               /\ \A x \in Evicted : \A j \in Keys(b) :
                      b.entries[x].last_access <= b.entries[j].last_access
          /\ \A j \in Keys(b) \ Evicted : cache.entries[j] = b.entries[j]
          /\ lastOp.key \in Keys(cache)
  /\ (lastOp.op = "get" /\ lastOp.found) =>
       cache.entries[lastOp.key].last_access = lastOp.t

\* the LRU case happened, and the evicted entry was not the one closest to
\* expiry: a survivor set earlier was kept because it was read later
C6_Witness ==
  /\ SetIntoFull
  /\ \A k \in Keys(lastOp.before) : lastOp.before.entries[k].expires_at > lastOp.t
  /\ \E x \in Evicted : \E y \in Keys(lastOp.before) \ Evicted :
        /\ lastOp.before.entries[y].expires_at < lastOp.before.entries[x].expires_at
        /\ lastOp.before.entries[y].last_access > lastOp.before.entries[x].last_access

\* C7: a get of an entry whose expires_at has passed reports found = FALSE,
\* removes the entry and counts as a miss, not as a hit.
C7_GetNeverReturnsExpired ==
  (/\ lastOp.op = "get"
   /\ lastOp.key \in Keys(lastOp.before)
   /\ lastOp.before.entries[lastOp.key].expires_at < lastOp.t)
  => /\ ~lastOp.found
     /\ lastOp.value = NoValue
     /\ lastOp.key \notin Keys(cache)
     /\ cache.misses = lastOp.before.misses + 1
     /\ cache.hits = lastOp.before.hits

C7_Witness ==
  /\ lastOp.op = "get"
  /\ lastOp.key \in Keys(lastOp.before)
  /\ lastOp.before.entries[lastOp.key].expires_at < lastOp.t
  /\ ~lastOp.found
  /\ cache.misses = lastOp.before.misses + 1

\* C8: the cache never holds more than max_items entries.
C8_SizeBounded == Cardinality(Keys(cache)) <= MaxItems

C8_Witness == SetIntoFull /\ Cardinality(Keys(cache)) = MaxItems

(* --------------------- properties of the pipeline --------------------- *)
\* slot r completes its response-cache lookup in this step
LookupStep(r) == reqs[r].pc = "lookup" /\ reqs'[r].pc # "lookup"

HitTrace == <<"gate", "normalize", "resolve", "rlookup">>

\* C1: on a response-cache hit the handler returns the stored payload with
\* response_cache.hit = true and does nothing after the lookup: no store
\* query, no model-registry lookup, no Compute.
C1_HitShortCircuits ==
  /\ [][\A r \in Slots : (LookupStep(r) /\ reqs'[r].rc_hit) =>
          /\ reqs'[r].pc = "done"
          /\ reqs'[r].resp =
               Ok200([respCache.entries[reqs[r].rkey].value EXCEPT !.rc_hit = TRUE])
          /\ UNCHANGED <<clientVars, store, artCache>>]_vars
  /\ [](\A r \in Slots : reqs[r].rc_hit =>
          /\ reqs[r].pc = "done"
          /\ reqs[r].trace = HitTrace
          /\ reqs[r].resp.status = 200
          /\ reqs[r].resp.payload.rc_hit)

\* a request to an endpoint with a model cache was answered from the
\* response cache
C1_Witness ==
  \E r \in Slots :
    /\ reqs[r].pc = "done"
    /\ reqs[r].rc_hit
    /\ reqs[r].endpoint = "risk"
    /\ reqs[r].resp.payload.rc_hit

\* the events of the request's scope are those its payload was resolved and
\* computed from
DataUnchanged(r) ==
  /\ reqs[r].resp.payload.src = Matching(store, reqs[r].scope)
  /\ reqs[r].resp.payload.csrc = Matching(store, reqs[r].scope)

\* the payload a response-cache miss would build for the request now
MissPayload(r) ==
  LET q == reqs[r]
      a == ResolveAnchor(store, q.scope)
      ak == ModelKey(q.endpoint, q.scope, a, ExtraParams(q.raw),
                     versions.feature)
      art == [model |-> ComputeValue(store, q.scope, a),
              csrc |-> Matching(store, q.scope)]
      mchit == /\ UsesModelCache(q.endpoint)
               /\ ak \in Keys(artCache)
               /\ artCache.entries[ak].expires_at > now
  IN Payload(q.endpoint, q.scope, a, art,
             ResponseKey(q.endpoint, q.scope, a, ExtraParams(q.raw),
                         versions.response),
             ak, mchit, Matching(store, q.scope))

\* C2 as stated: but for the response_cache.hit annotation, the payload of a
\* hit equals the payload a miss would build from the same inputs and data.
C2_HitIdenticalToMiss ==
  \A r \in Slots :
    (reqs[r].pc = "done" /\ reqs[r].rc_hit /\ DataUnchanged(r)) =>
      [reqs[r].resp.payload EXCEPT !.rc_hit = FALSE] = MissPayload(r)

\* C2 amended: the payload of a hit equals the payload a miss would build
\* from the same inputs and unchanged data in everything but the cache-hit
\* flags meta.response_cache.hit and meta.model_cache.hit.
C2_HitEqualsMissButHitFlags ==
  \A r \in Slots :
    (reqs[r].pc = "done" /\ reqs[r].rc_hit /\ DataUnchanged(r)) =>
      [reqs[r].resp.payload EXCEPT !.rc_hit = FALSE, !.mc_hit = FALSE]
        = [MissPayload(r) EXCEPT !.mc_hit = FALSE]

\* a hit on unchanged, non-empty data
C2_Witness ==
  \E r \in Slots :
    /\ reqs[r].pc = "done"
    /\ reqs[r].rc_hit
    /\ DataUnchanged(r)
    /\ reqs[r].resp.payload.value >= 1

\* C3: if the response cache holds an unexpired response stored for the same
\* endpoint and normalized scope and resolved from the same data, the
\* request is a hit and reports the key_hash reported when it was stored.
C3_RepeatIsHit ==
  [][\A r \in Slots : LookupStep(r) =>
       \A k \in Keys(respCache) :
         LET p == respCache.entries[k].value
         IN (/\ p.endpoint = reqs[r].endpoint
             /\ p.scope = reqs[r].scope
             /\ p.src = reqs[r].src
             /\ respCache.entries[k].expires_at > now)
            => /\ reqs'[r].rc_hit
               /\ reqs'[r].resp.status = 200
               /\ reqs'[r].resp.payload.rc_hit
               /\ ~p.rc_hit
               /\ reqs'[r].resp.payload.rc_key_hash = p.rc_key_hash
               /\ ShortHash(reqs[r].rkey) = p.rc_key_hash]_vars

\* a repeated request was served from the entry a miss had stored
C3_Witness ==
  \E r \in Slots :
    /\ reqs[r].pc = "done"
    /\ reqs[r].rc_hit
    /\ reqs[r].resp.payload.src = reqs[r].src
    /\ reqs[r].resp.payload.rc_key_hash = ShortHash(reqs[r].rkey)
    /\ reqs[r].rkey \in Keys(respCache)

Stores(tr) == {i \in 1..Len(tr) : tr[i] \in {"astore", "rstore"}}

\* C4: a request that ends in InvalidParameter (400), RateLimited (429) or
\* ComputeFailure (500) has stored nothing in either cache and its last step
\* leaves both caches' entries as they were; no cache holds the result of a
\* failed computation and no hit returns one.
C4_OnlySuccessCached ==
  /\ [](\A r \in Slots :
          (reqs[r].pc = "done" /\ reqs[r].resp.status # 200) =>
             /\ reqs[r].resp.status \in {400, 429, 500}
             /\ Stores(reqs[r].trace) = {})
  /\ [](\A k \in Keys(respCache) : respCache.entries[k].value.value # Null)
  /\ [](\A k \in Keys(artCache) : artCache.entries[k].value.model # Null)
  /\ [](\A r \in Slots : reqs[r].rc_hit => reqs[r].resp.payload.value # Null)
  /\ [][\A r \in Slots :
          (reqs[r].pc # "done" /\ reqs'[r].pc = "done"
             /\ reqs'[r].resp.status # 200) =>
          /\ respCache'.entries = respCache.entries
          /\ artCache'.entries = artCache.entries]_vars

\* Compute failed for a request and nothing is cached under its keys
C4_Witness ==
  \E r \in Slots :
    /\ reqs[r].pc = "done"
    /\ reqs[r].resp.status = 500
    /\ reqs[r].rkey \notin Keys(respCache)
    /\ reqs[r].akey \notin Keys(artCache)

MissHitTrace ==
  <<"gate", "normalize", "resolve", "rlookup", "alookup", "rstore", "return">>
MissMissTrace ==
  <<"gate", "normalize", "resolve", "rlookup", "alookup", "compute", "astore",
    "rstore", "return">>
NoModelCacheTrace ==
  <<"gate", "normalize", "resolve", "rlookup", "compute", "rstore", "return">>

\* the request was answered after a response-cache miss
AnsweredMiss(r) ==
  reqs[r].pc = "done" /\ reqs[r].resp.status = 200 /\ ~reqs[r].rc_hit

\* C5 as stated: every response-cache miss consults the model registry.
C5_MissConsultsArtifactCache ==
  \A r \in Slots : AnsweredMiss(r) =>
    \E i \in 1..Len(reqs[r].trace) : reqs[r].trace[i] = "alookup"

\* C5 amended: for the endpoints that keep a model in the registry (risk,
\* forecast) a response-cache miss looks the model up; on a hit Compute is
\* not invoked and the cached artifact is used; on a miss Compute runs once,
\* its result is stored in the registry, then the response is stored in the
\* response cache, then returned. The other endpoints (stats, hotspots) run
\* Compute once, store the response and return it.
C5_MissPath ==
  /\ [](\A r \in Slots : AnsweredMiss(r) =>
          /\ (UsesModelCache(reqs[r].endpoint) /\ reqs[r].mc_hit) =>
                reqs[r].trace = MissHitTrace
          /\ (UsesModelCache(reqs[r].endpoint) /\ ~reqs[r].mc_hit) =>
                reqs[r].trace = MissMissTrace
          /\ ~UsesModelCache(reqs[r].endpoint) =>
                reqs[r].trace = NoModelCacheTrace
          /\ reqs[r].resp.payload.value = reqs[r].artifact.model
          /\ reqs[r].resp.payload.mc_hit = reqs[r].mc_hit)
  /\ [][\A r \in Slots :
          (reqs[r].pc = "art" /\ reqs'[r].pc # "art" /\ reqs'[r].mc_hit) =>
             reqs'[r].artifact = artCache.entries[reqs[r].akey].value]_vars
  /\ [][\A r \in Slots :
          (reqs[r].pc = "artstore" /\ reqs'[r].pc # "artstore") =>
             /\ reqs[r].akey \in Keys(artCache')
             /\ artCache'.entries[reqs[r].akey].value = reqs[r].artifact]_vars
  /\ [][\A r \in Slots :
          (reqs[r].pc = "respstore" /\ reqs'[r].pc # "respstore") =>
             /\ reqs[r].rkey \in Keys(respCache')
             /\ respCache'.entries[reqs[r].rkey].value = reqs'[r].resp.payload]_vars

\* a response-cache miss reused a cached artifact without calling Compute
C5_Witness ==
  \E r \in Slots :
    /\ AnsweredMiss(r)
    /\ reqs[r].endpoint = "risk"
    /\ reqs[r].mc_hit
    /\ reqs[r].trace = MissHitTrace

\* C10: the rate-limit gate is the first step of every request; a rejected
\* request does nothing else, leaves the store and both caches (entries and
\* counters) untouched, and its Retry-After header carries the same seconds
\* as retry_after_seconds in the body.
C10_GateFirst ==
  /\ [](\A r \in Slots : reqs[r].pc # "idle" => reqs[r].trace[1] = "gate")
  /\ [](\A r \in Slots : reqs[r].resp.status = 429 =>
          /\ reqs[r].pc = "done"
          /\ reqs[r].trace = <<"gate">>
          /\ reqs[r].resp.group = GroupOf(reqs[r].endpoint)
          /\ reqs[r].resp.retry_after_seconds > 0
          /\ reqs[r].resp.retry_after_header = reqs[r].resp.retry_after_seconds)
  /\ [][\A r \in Slots :
          (reqs[r].pc = "idle" /\ reqs'[r].pc = "done") =>
             /\ reqs'[r].resp.status = 429
             /\ UNCHANGED <<clientVars, store, respCache, artCache>>]_vars

\* a request was rejected although the response cache holds a live answer
\* for it
C10_Witness ==
  \E r \in Slots :
    /\ reqs[r].resp.status = 429
    /\ \E k \in Keys(respCache) :
         /\ respCache.entries[k].value.endpoint = reqs[r].endpoint
         /\ respCache.entries[k].value.scope = Normalize(reqs[r].raw)
         /\ respCache.entries[k].expires_at > now

(* ------------------- properties of the rate limiter ------------------- *)
\* the documented limit of a limited group
DocLimit(g) == IF g = "predict" THEN LimitPredict ELSE LimitStats

\* the last allow() call found no bucket, or one whose window had elapsed
FreshWindow ==
  LET id == <<lastDec.client, lastDec.group>>
  IN \/ id \notin DOMAIN lastDec.before
     \/ lastDec.t >= lastDec.before[id].window_start + WindowSeconds

\* position of the last allow() call within its window (1 = first)
CallIndex ==
  IF FreshWindow THEN 1
  ELSE lastDec.before[<<lastDec.client, lastDec.group>>].count + 1

\* C9: in a window the first N calls are allowed, call N+1 (and any later
\* one) is rejected with retry_after_seconds > 0, and the first call after
\* window_start + window_seconds is allowed again, the bucket being reset.
C9_FixedWindowLimit ==
  lastDec.group \in {"predict", "stats"} =>
    LET id == <<lastDec.client, lastDec.group>>
    IN /\ buckets[id].count = CallIndex
       /\ CallIndex <= DocLimit(lastDec.group) => lastDec.allowed
       /\ CallIndex > DocLimit(lastDec.group) =>
            ~lastDec.allowed /\ lastDec.retry_after_seconds > 0
       /\ FreshWindow =>
            lastDec.allowed /\ buckets[id].window_start = lastDec.t

\* a client was rejected in one window and is allowed again after it elapsed
C9_Witness ==
  LET id == <<lastDec.client, lastDec.group>>
  IN /\ lastDec.group = "predict"
     /\ id \in DOMAIN lastDec.before
     /\ lastDec.before[id].count = LimitPredict + 1
     /\ lastDec.t >= lastDec.before[id].window_start + WindowSeconds
     /\ lastDec.allowed
     /\ buckets[id].count = 1

\* the bucket of the last allow() call
OwnBucket == BucketId(lastDec.client, lastDec.group)

\* C11: an allow() call changes no bucket but the one of its own (client,
\* group) pair, its decision is the one it would get if no other bucket
\* existed, and a limited group admits the call iff the count of its own
\* bucket is within that group's own limit.
C11_BucketsIsolated ==
  lastDec.group # "" =>
    LET b == lastDec.before
        own == <<lastDec.client, lastDec.group>>
        alone == Allow(Restrict(b, DOMAIN b \cap {own}), lastDec.client,
                       lastDec.group, lastDec.t)
    IN /\ \A id \in DOMAIN b :
            id # own => id \in DOMAIN buckets /\ buckets[id] = b[id]
       /\ DOMAIN buckets \subseteq DOMAIN b \cup {own}
       /\ alone.allowed = lastDec.allowed
       /\ alone.retry_after_seconds = lastDec.retry_after_seconds
       /\ lastDec.group \in {"predict", "stats"} =>
            /\ own \in DOMAIN buckets
            /\ lastDec.allowed <=> buckets[own].count <= DocLimit(lastDec.group)
       /\ lastDec.group = "internal" => lastDec.allowed /\ buckets = b

\* a client that has exhausted one group within the current window makes its
\* first call in its other group, where another client has a live bucket:
\* the call is allowed and counted as the first of its own bucket
C11_Witness ==
  /\ lastDec.allowed
  /\ lastDec.group \in {"predict", "stats"}
  /\ buckets[<<lastDec.client, lastDec.group>>].count = 1
  /\ \E id \in DOMAIN buckets :
       /\ id[1] = lastDec.client /\ id[2] # lastDec.group
       /\ buckets[id].count > DocLimit(id[2])
       /\ lastDec.t < buckets[id].window_start + WindowSeconds
  /\ \E id \in DOMAIN buckets :
       /\ id[1] # lastDec.client /\ id[2] = lastDec.group
       /\ lastDec.t < buckets[id].window_start + WindowSeconds

\* C12: in production mode the identity used for rate limiting is the
\* network peer: the call counts in the peer's bucket and gets the decision
\* the peer's bucket gives, whatever X-Forwarded-For header it carries; an
\* identity other than the peer is used only in DEBUG mode, and then it is
\* the first value of the header.
C12_PeerIdentityInProduction ==
  lastDec.group # "" =>
    LET asPeer == Allow(lastDec.before, lastDec.peer, lastDec.group, lastDec.t)
    IN /\ ~debug =>
            /\ lastDec.client = lastDec.peer
            /\ buckets = asPeer.buckets
            /\ lastDec.allowed = asPeer.allowed
            /\ lastDec.retry_after_seconds = asPeer.retry_after_seconds
       /\ lastDec.client # lastDec.peer =>
            /\ debug
            /\ lastDec.xff # NoHeader
            /\ lastDec.client = lastDec.xff[1]

\* in production a peer that names another client in X-Forwarded-For is
\* rejected on its own exhausted bucket, and the named client has no bucket
C12_Witness ==
  /\ ~debug
  /\ lastDec.xff # NoHeader
  /\ lastDec.xff[1] # lastDec.peer
  /\ lastDec.group = "predict"
  /\ ~lastDec.allowed
  /\ buckets[<<lastDec.peer, "predict">>].count > LimitPredict
  /\ \A id \in DOMAIN buckets : id[1] = lastDec.peer

\* the calls counted in a bucket, in the order they were made
Calls(id) == IF id \in DOMAIN callLog THEN callLog[id] ELSE <<>>

\* how many of the calls i..j of a bucket were allowed
AllowedAmong(c, i, j) == Cardinality({k \in i..j : c[k].allowed})

\* the last 2 x limit calls of a bucket straddle a window seam and are closer
\* together than window_seconds: limit of them were counted in one window
\* and limit in the next
SeamBurst(id) ==
  LET c == Calls(id)
      L == DocLimit(id[2])
      n == Len(c)
  IN /\ n >= 2 * L
     /\ c[n].t - c[n - 2 * L + 1].t < WindowSeconds
     /\ \A i \in (n - 2 * L + 1)..(n - L) : c[i].window_start = c[n - L].window_start
     /\ \A i \in (n - L + 1)..n : c[i].window_start = c[n].window_start
     /\ c[n - L].window_start < c[n].window_start

Found(c) == Matching(c.store, c.scope)

\* C14: two resolve() calls for the same normalized scope that find the same
\* matching events return the same AnchorWindow, whatever the wall clock and
\* the rest of the store at each call, and (for the same endpoint-specific
\* parameters) derive the same cache keys.
C14_ResolveDeterministic ==
  \A i, j \in 1..Len(resolved) :
    (/\ KeyScope(resolved[i].scope) = KeyScope(resolved[j].scope)
     /\ Found(resolved[i]) = Found(resolved[j]))
    => /\ resolved[i].anchor = resolved[j].anchor
       /\ ExtraParams(resolved[i].raw) = ExtraParams(resolved[j].raw) =>
            /\ resolved[i].rkey = resolved[j].rkey
            /\ resolved[i].akey = resolved[j].akey

\* the same scope was resolved at two different wall-clock times, an event
\* outside the scope having been ingested in between, with the same result
C14_Witness ==
  /\ Len(resolved) = 2
  /\ resolved[1].t < resolved[2].t
  /\ resolved[1].store # resolved[2].store
  /\ resolved[1].scope = resolved[2].scope
  /\ Found(resolved[1]) # {}
  /\ Found(resolved[1]) = Found(resolved[2])
  /\ resolved[1].anchor.window_source = "anchored"
  /\ resolved[1].anchor = resolved[2].anchor
  /\ resolved[1].rkey = resolved[2].rkey

\* the events of a store that pass the bbox, category and hour filters of a
\* scope, whatever their timestamps
NonTimeMatches(st, scope) ==
  {e \in st :
     /\ scope.bbox # NoBbox =>
          /\ scope.bbox[1] <= e.lon /\ e.lon <= scope.bbox[3]
          /\ scope.bbox[2] <= e.lat /\ e.lat <= scope.bbox[4]
     /\ scope.query_category # NoCategory => e.cat = scope.query_category
     /\ (scope.hour_start # Null /\ scope.hour_end # Null) =>
          IF scope.hour_start <= scope.hour_end
          THEN scope.hour_start <= e.hour /\ e.hour <= scope.hour_end
          ELSE e.hour >= scope.hour_start \/ e.hour <= scope.hour_end}

WindowOrdered(a) == a.start_ts # Null /\ a.end_ts # Null => a.start_ts <= a.end_ts

\* the data bounds of an AnchorWindow are ordered, if it has them
DataOrdered(a) ==
  a.data_min_ts # Null /\ a.data_max_ts # Null => a.data_min_ts <= a.data_max_ts

C22_RecentBaselineDisjoint ==
  \A i \in 1..Len(resolved) :
    LET c == resolved[i]
        A == c.anchor.anchor_ts
    IN /\ A = Null => c.hot = NoWindows /\ c.recent = {} /\ c.baseline = {}
       /\ A # Null =>
            /\ c.hot.recent.end_ts = A
            /\ c.hot.recent.end_ts - c.hot.recent.start_ts = RecentDays
            /\ c.hot.baseline.end_ts = c.hot.recent.start_ts
            /\ c.hot.baseline.end_ts - c.hot.baseline.start_ts = BaselineDays
            /\ c.recent \cap c.baseline = {}
            /\ c.recent \cup c.baseline
                 = {e \in Found(c) : A - RecentDays - BaselineDays <= e.ts}
       /\ \A j \in 1..Len(resolved) :
            resolved[j].anchor.anchor_ts = A => resolved[j].hot = c.hot

\* hotspot windows were resolved over a store holding an event exactly at
\* anchor_ts - recent_days and one at the anchor; the former is counted in
\* the recent range only
C22_Witness ==
  \E i \in 1..Len(resolved) :
    LET c == resolved[i]
    IN /\ c.hot # NoWindows
       /\ \E e \in c.recent : e.ts = c.hot.baseline.end_ts
       /\ \E e \in c.recent : e.ts = c.anchor.anchor_ts
       /\ c.hot.baseline.end_ts < c.anchor.anchor_ts
       /\ c.baseline = {}

(* ---------------------- properties of the keys ------------------------- *)
\* C15: a response cached for the same endpoint and scope under another
\* anchor_ts (new data has advanced MAX(ts) since) is stored under a key
\* different from the request's, and a hit always returns a response whose
\* anchor_ts is the one the request resolved.
C15_NewDataChangesKey ==
  \A r \in Slots :
    /\ reqs[r].rkey # NoKey =>
         \A k \in Keys(respCache) :
           LET p == respCache.entries[k].value
           IN (/\ p.endpoint = reqs[r].endpoint
               /\ KeyScope(p.scope) = KeyScope(reqs[r].scope)
               /\ p.anchor.anchor_ts # reqs[r].anchor.anchor_ts)
              => k # reqs[r].rkey
    /\ reqs[r].rc_hit =>
         reqs[r].resp.payload.anchor.anchor_ts = reqs[r].anchor.anchor_ts

\* a request was answered by a miss although the response cached for its
\* endpoint and scope under the previous, older anchor was still live
C15_Witness ==
  \E r \in Slots :
    /\ AnsweredMiss(r)
    /\ \E k \in Keys(respCache) :
         LET p == respCache.entries[k].value
         IN /\ p.endpoint = reqs[r].endpoint
            /\ p.scope = reqs[r].scope
            /\ p.anchor.anchor_ts # Null
            /\ p.anchor.anchor_ts < reqs[r].anchor.anchor_ts
            /\ respCache.entries[k].expires_at > now

\* the served requests that got as far as deriving their keys
Keyed == {i \in 1..Len(served) : served[i].rkey # NoKey}

\* the served requests that stored their response
Storers == {i \in Keyed : served[i].resp.status = 200 /\ ~served[i].rc_hit}

\* two served requests differ in something the response depends on
Differ(c, d) ==
  \/ c.endpoint # d.endpoint
  \/ c.scope.bbox # d.scope.bbox
  \/ c.scope.category # d.scope.category
  \/ c.scope.hour_start # d.scope.hour_start
  \/ c.scope.hour_end # d.scope.hour_end
  \/ c.scope.start # d.scope.start
  \/ c.scope.end # d.scope.end
  \/ c.anchor.anchor_ts # d.anchor.anchor_ts
  \/ ParamValue(c.raw, "alpha", Null) # ParamValue(d.raw, "alpha", Null)

\* C16: two requests that differ in endpoint, normalized bbox, category,
\* hour range, explicit start/end, anchor_ts, an endpoint-specific parameter
\* or the version have different response keys (and different model keys),
\* and a hit returns the payload stored by a request that differs from the
\* hitting one in none of these.
C16_NoKeyCollision ==
  /\ \A i, j \in Keyed :
       /\ (Differ(served[i], served[j])
             \/ served[i].versions.response # served[j].versions.response)
            => served[i].rkey # served[j].rkey
       /\ (Differ(served[i], served[j])
             \/ served[i].versions.feature # served[j].versions.feature)
            => served[i].akey # served[j].akey
  /\ \A j \in Keyed :
       served[j].rc_hit =>
         \E i \in Storers :
           /\ i < j
           /\ ~Differ(served[i], served[j])
           /\ served[i].versions.response = served[j].versions.response
           /\ served[j].resp.payload = AnnotateHit(served[i].resp.payload)

\* a request differing from a cached one in the hour range only was a miss
\* while the other's response was in the cache
C16_Witness ==
  /\ Len(served) = 2
  /\ Storers = {1, 2}
  /\ served[1].endpoint = served[2].endpoint
  /\ served[1].scope.bbox = served[2].scope.bbox
  /\ served[1].scope.category = served[2].scope.category
  /\ served[1].anchor.anchor_ts = served[2].anchor.anchor_ts
  /\ served[1].anchor.anchor_ts # Null
  /\ served[1].scope.hour_start # served[2].scope.hour_start
  /\ served[1].rkey # served[2].rkey
  /\ {served[1].rkey, served[2].rkey} \subseteq Keys(respCache)

\* two raw parameter sets are the same request but for the order of the
\* parameters, bbox digits beyond the fifth decimal and an empty category
\* standing for an absent one
SameButForm(raw1, raw2) ==
  LET b1 == ParamValue(raw1, "bbox", NoBbox)
      b2 == ParamValue(raw2, "bbox", NoBbox)
  IN /\ (b1 = NoBbox) = (b2 = NoBbox)
     /\ b1 # NoBbox => \A i \in 1..4 : (b1[i] + 5) \div 10 = (b2[i] + 5) \div 10
     /\ ParamValue(raw1, "category", <<>>) = ParamValue(raw2, "category", <<>>)
     /\ \A n \in {"hour_start", "hour_end", "start", "end", "alpha"} :
          ParamValue(raw1, n, Null) = ParamValue(raw2, n, Null)

\* C17: two raw parameter sets that normalize to the same scope (bbox equal
\* after rounding to 5 decimals, parameters in any order, absent fields
\* uniform) derive the same response key and the same model key for the same
\* endpoint, anchor and version.
C17_KeyStable ==
  \A i, j \in Keyed :
    (/\ served[i].endpoint = served[j].endpoint
     /\ SameButForm(served[i].raw, served[j].raw)
     /\ served[i].anchor = served[j].anchor
     /\ served[i].versions = served[j].versions)
    => /\ served[i].rkey = served[j].rkey
       /\ served[i].akey = served[j].akey
       /\ KeyScope(served[i].scope) = KeyScope(served[j].scope)

\* the two bboxes of the key-stability example: the second request was
\* served from the entry the first had stored
C17_Witness ==
  /\ Len(served) = 2
  /\ served[1].raw = <<<<"bbox", ExampleBbox1>>>>
  /\ served[2].raw = <<<<"bbox", ExampleBbox2>>>>
  /\ served[1].rkey = served[2].rkey
  /\ 1 \in Storers
  /\ served[2].rc_hit

\* two strings are equal but for letter case and surrounding whitespace
CaseVariants(s1, s2) ==
  /\ Len(Trim(s1)) = Len(Trim(s2))
  /\ \A i \in 1..Len(Trim(s1)) : Lower(Trim(s1)[i]) = Lower(Trim(s2)[i])

\* two raw parameter sets are identical but for the case and surrounding
\* whitespace of the category
SameButCase(raw1, raw2) ==
  /\ CaseVariants(ParamValue(raw1, "category", <<>>),
                  ParamValue(raw2, "category", <<>>))
  /\ ParamValue(raw1, "bbox", NoBbox) = ParamValue(raw2, "bbox", NoBbox)
  /\ \A n \in {"hour_start", "hour_end", "start", "end", "alpha"} :
       ParamValue(raw1, n, Null) = ParamValue(raw2, n, Null)

C19_VersionBumpInvalidates ==
  /\ \A i, j \in Keyed :
       /\ served[i].versions.response # served[j].versions.response
            => served[i].rkey # served[j].rkey
       /\ served[i].versions.feature # served[j].versions.feature
            => served[i].akey # served[j].akey
  /\ \A j \in Keyed :
       /\ served[j].rc_hit =>
            \E i \in Storers :
              /\ i < j
              /\ served[i].rkey = served[j].rkey
              /\ served[i].versions.response = served[j].versions.response
       /\ served[j].mc_hit =>
            \E i \in Storers :
              /\ i < j
              /\ served[i].akey = served[j].akey
              /\ served[i].versions.feature = served[j].versions.feature
  /\ \A i \in Storers : served[i].rkey \in Keys(respCache)

\* the same request was repeated after both versions were bumped: it missed
\* both caches although the entries stored before the bump were still there
C19_Witness ==
  /\ Len(served) = 2
  /\ Storers = {1, 2}
  /\ served[1].endpoint = "risk"
  /\ served[2].endpoint = "risk"
  /\ served[1].raw = served[2].raw
  /\ served[1].anchor = served[2].anchor
  /\ served[1].versions.response # served[2].versions.response
  /\ served[1].versions.feature # served[2].versions.feature
  /\ ~served[2].mc_hit
  /\ {served[1].rkey, served[2].rkey} \subseteq Keys(respCache)
  /\ {served[1].akey, served[2].akey} \subseteq Keys(artCache)

(* ------------------------ properties of no data ------------------------- *)
\* the AnchorWindow of a scope matching zero events
NoDataWindow(a) ==
  /\ a.data_min_ts = Null /\ a.data_max_ts = Null /\ a.anchor_ts = Null
  /\ a.start_ts = Null /\ a.end_ts = Null
  /\ a.message # ""

\* the requests whose scope matched zero events when it was resolved
NoDataReqs == {r \in Slots : reqs[r].pc \notin {"idle", "admitted"}
                             /\ reqs[r].rkey # NoKey /\ reqs[r].src = {}}

HasPrefix(k, p) ==
  \E rest \in {SubSeq(KeyString(k), i, Len(KeyString(k))) :
                 i \in 1..(Len(KeyString(k)) + 1)} :
    KeyString(k) = p \o rest

\* C24: invalidate_prefix(prefix) removes exactly the entries whose stored
\* key starts with the prefix, adds none, and leaves every other entry
\* (expired ones included) and the counters as they were.
C24_InvalidatePrefixExact ==
  lastOp.op = "invalidate" =>
    LET b == lastOp.before
    IN /\ Keys(cache) = {k \in Keys(b) : ~HasPrefix(k, lastOp.prefix)}
       /\ \A k \in Keys(cache) : cache.entries[k] = b.entries[k]
       /\ Stats(cache).hits = Stats(b).hits
       /\ Stats(cache).misses = Stats(b).misses
       /\ Stats(cache).evictions = Stats(b).evictions

\* invalidate_prefix("risk:") removed a risk entry from a cache that also
\* held a stats entry, which stayed and had been read since it was set
C24_Witness ==
  /\ lastOp.op = "invalidate"
  /\ lastOp.prefix = EndpointChars("risk") \o <<":">>
  /\ \E k \in Keys(lastOp.before) : k.endpoint = "risk"
  /\ \E k \in Keys(cache) :
       /\ k.endpoint = "stats"
       /\ cache.entries[k].last_access > 0
       /\ cache.entries[k].last_access + RespTTL # cache.entries[k].expires_at
       /\ cache.entries[k].last_access + ArtTTL # cache.entries[k].expires_at

(* ---------------------- properties of the stampede ---------------------- *)
\* the requests of a stampede that have returned
RacedDone == {r \in Slots : reqs[r].raced /\ reqs[r].pc = "done"}

\* the requests of a stampede that have returned a response they built
RacedOk == {r \in RacedDone : reqs[r].resp.status = 200}

Has(tr, step) == \E i \in 1..Len(tr) : tr[i] = step

\* a request stores its response
StoreStep(r) == reqs[r].pc = "respstore" /\ reqs'[r].pc = "done"

\* the part of the stampede claim that holds as stated: each request of a
\* stampede missed; one whose Compute returned stores its response under
\* the key, the stored entry being the writer's own response; when all have
\* returned the cache holds one entry for the key, the response of one of
\* them
StampedeStores ==
  /\ [](\A r \in Slots : reqs[r].raced => ~reqs[r].rc_hit)
  /\ [](\A r \in RacedDone :
          /\ reqs[r].resp.status \in {200, 500}
          /\ reqs[r].resp.status = 200 <=> Has(reqs[r].trace, "rstore"))
  /\ [](\A r \in RacedOk :
          /\ RacedOk = Slots =>
               /\ reqs[r].rkey \in Keys(respCache)
               /\ respCache.entries[reqs[r].rkey].value
                    \in {reqs[o].resp.payload : o \in RacedOk}
          /\ \A o \in RacedOk :
               /\ reqs[o].rkey = reqs[r].rkey
               /\ reqs[o].resp.payload.anchor.anchor_ts
                    = reqs[r].resp.payload.anchor.anchor_ts)
  /\ [][\A r \in Slots : (reqs[r].raced /\ StoreStep(r)) =>
          /\ reqs[r].rkey \in Keys(respCache')
          /\ respCache'.entries[reqs[r].rkey].value = reqs'[r].resp.payload]_vars

ZoneSelectionChange(ids) ==
  /\ selectedZoneIds' = ids
  /\ zonesParam' = JoinZones(ids)

\* ZoneComparePanel.addZone(id)
AddZone(id) ==
  /\ ~(Includes(selectedZoneIds, id) \/ Len(selectedZoneIds) >= MAX_ZONES)
  /\ ZoneSelectionChange(Append(selectedZoneIds, id))
  /\ UNCHANGED <<now, cacheVars, rateVars, pipeVars, keyVars, hotVars, viewVars, moreVars>>

\* ZoneComparePanel.removeZone(id)
RemoveZone(id) ==
  /\ Includes(selectedZoneIds, id)
  /\ ZoneSelectionChange(Without(selectedZoneIds, id))
  /\ UNCHANGED <<now, cacheVars, rateVars, pipeVars, keyVars, hotVars, viewVars, moreVars>>

\* the URL changes (a link is opened, the address is edited): the effect on
\* searchParams replaces the selection by the parsed parameter
Navigate(param) ==
  /\ param # zonesParam
  /\ zonesParam' = param
  /\ selectedZoneIds' = ParseZones(param)
  /\ UNCHANGED <<now, cacheVars, rateVars, pipeVars, keyVars, hotVars, viewVars, moreVars>>

\* the `zones` parameters of the URLs opened: absent, "2,1", "0,x,3",
\* "2,2" and "1,2,3,4,5,6"
UrlParams ==
  {NoParam,
   <<Tok(2), Tok(1)>>,
   <<Tok(0), NaNTok, Tok(3)>>,
   <<Tok(2), Tok(2)>>,
   [i \in 1..(MAX_ZONES + 1) |-> Tok(i)]}

NextZones ==
  \/ \E id \in ZoneIds : AddZone(id)
  \/ \E id \in ZoneIds : RemoveZone(id)
  \/ \E param \in UrlParams : Navigate(param)

SpecZones == Init /\ [][NextZones]_vars

\* C27: the selected zone ids passed to ZoneComparePanel are at most
\* MAX_ZONES = 5, after any sequence of add-zone and remove-zone actions and
\* of changes of the URL's `zones` parameter.
C27_AtMostMaxZones == Len(selectedZoneIds) <= MAX_ZONES

(* ------------- SpecHot: fetchHotspotsGridCached under any calls ---------- *)
\* a caller calls fetchHotspotsGridCached(params, signal)
HotCall(key, sig) ==
  /\ sig \notin aborted
  /\ \E r \in FetchHotspotsGridCached(hotspotsCache, promises, key, sig, now) :
       /\ Len(r.promises) <= MaxFetches
       /\ hotspotsCache' = r.cache
       /\ promises' = r.promises
       /\ lastHot' = [key |-> key, signal |-> sig, kind |-> r.kind,
                      promise |-> r.promise,
                      awaited |-> Awaited(hotspotsCache, key),
                      age |-> Age(hotspotsCache, key, now),
                      requests |-> Len(promises)]
  /\ UNCHANGED <<now, cacheVars, rateVars, pipeVars, keyVars, zoneVars, moreVars, viewVars,
                 aborted>>

\* the response of a network request arrives: on success the data is
\* cached, on failure the key is deleted
HotSettle(pid, outcome) ==
  /\ pid \in 1..Len(promises)
  /\ promises[pid].status = "pending"
  /\ promises' = [promises EXCEPT ![pid].status = Settled(outcome)]
  /\ hotspotsCache' = IF outcome = "ok"
                      THEN OnFulfilled(hotspotsCache, pid, promises[pid].key, now)
                      ELSE OnRejected(hotspotsCache, promises[pid].key)
  /\ UNCHANGED <<now, cacheVars, rateVars, pipeVars, keyVars, zoneVars, moreVars, viewVars,
                 aborted, lastHot>>

\* a signal is aborted: its pending requests reject with AbortError
HotAbort(sig) ==
  /\ sig \notin aborted
  /\ aborted' = aborted \cup {sig}
  /\ promises' = [i \in 1..Len(promises) |->
                    IF i \in AbortedBy(promises, sig)
                    THEN [promises[i] EXCEPT !.status = "rejected"]
                    ELSE promises[i]]
  /\ hotspotsCache' = DeleteKeys(hotspotsCache,
                         {promises[i].key : i \in AbortedBy(promises, sig)})
  /\ UNCHANGED <<now, cacheVars, rateVars, pipeVars, keyVars, zoneVars, moreVars, viewVars,
                 lastHot>>

\* callers with a signal of their own and callers without one
HotSignals == {NoSignal} \cup Signals

NextHot ==
  \/ Tick(HotTTL)
  \/ \E key \in HotKeys, sig \in HotSignals : HotCall(key, sig)
  \/ \E pid \in 1..MaxFetches, outcome \in Outcomes : HotSettle(pid, outcome)
  \/ \E sig \in HotSignals \ {NoSignal} : HotAbort(sig)

SpecHot == Init /\ [][NextHot]_vars

\* the network requests of a key that have not settled
InFlight(key) ==
  {i \in 1..Len(promises) : promises[i].key = key /\ promises[i].status = "pending"}

\* C28: at most one hotspots request per key is in flight; a call made
\* while the fetch of its key has not settled returns the promise of that
\* fetch and starts no network request; a call that starts one finds none
\* in flight for its key.
C28_InFlightDedupe ==
  /\ \A key \in HotKeys : Cardinality(InFlight(key)) <= 1
  /\ \A key \in HotKeys : \A i \in InFlight(key) :
       /\ key \in DOMAIN hotspotsCache
       /\ hotspotsCache[key] = InFlightEntry(i, hotspotsCache[key].ts)
  /\ lastHot.awaited # 0 =>
       /\ lastHot.kind = "promise"
       /\ lastHot.promise = lastHot.awaited
       /\ \A i \in (lastHot.requests + 1)..Len(promises) :
            promises[i].key # lastHot.key
  /\ (lastHot.kind = "promise" /\ lastHot.promise > lastHot.requests) =>
       lastHot.awaited = 0

\* a call found the fetch of its key in flight, started by another caller,
\* and got that promise, while a request for another key was in flight too
C28_Witness ==
  /\ lastHot.kind = "promise"
  /\ lastHot.promise <= lastHot.requests
  /\ promises[lastHot.promise].status = "pending"
  /\ promises[lastHot.promise].signal # lastHot.signal
  /\ Len(promises) = lastHot.requests
  /\ \E key \in HotKeys \ {lastHot.key} : InFlight(key) # {}

(* ------------- SpecView: the viewport effect of the map page ------------- *)
\* the client state a step of the effect reads and writes
Cur ==
  [view |-> view, display |-> display, timers |-> timers,
   retry |-> retryTimeoutRef, loading |-> loadingDelayRef,
   cache |-> hotspotsCache, promises |-> promises, stale |-> FALSE]

Assign(S) ==
  /\ view' = S.view
  /\ display' = S.display
  /\ timers' = S.timers
  /\ retryTimeoutRef' = S.retry
  /\ loadingDelayRef' = S.loading
  /\ hotspotsCache' = S.cache
  /\ promises' = S.promises
  /\ lastStale' = S.stale

\* variant: a 429 is retried while attempt < maxAttempts
AfterHotspotsOneMore(S, g, outcome, j, ab) ==
  LET v == S.view[g]
      main == v.pc = "hot"
      gone == g \in ab
      d == S.display
      again == outcome = "e429" /\ v.attempt < maxAttempts
      d2 == CASE outcome = "ok" ->
                   IF gone THEN d
                   ELSE [d EXCEPT !.hotspotsCells = g, !.hotspotsError = 0,
                                  !.hotspotsRateLimitHint = "null",
                                  !.anchorMeta = IF v.gotStatsMeta THEN @ ELSE g]
              [] again -> [d EXCEPT !.hotspotsRateLimitHint = "retrying"]
              [] outcome = "e429" /\ ~again ->
                   [d EXCEPT !.hotspotsRateLimitHint = "failed"]
              [] OTHER -> [d EXCEPT !.hotspotsError = g, !.hotspotsCells = 0]
      v2 == [v EXCEPT !.awaits = 0,
                      !.last = outcome,
                      !.rpc = IF again THEN "timer"
                              ELSE IF outcome = "e429" THEN "failed"
                              ELSE IF main THEN "none" ELSE "over",
                      !.attempt = IF again THEN @ + 1 ELSE @,
                      !.delay = IF again THEN backoffMs[v.attempt + 1] + j ELSE @,
                      !.pc = IF main THEN (IF gone THEN "done" ELSE "risk") ELSE @]
  IN [S EXCEPT !.view[g] = v2, !.display = d2,
               !.timers = IF again THEN @ \cup {RetryTimer(g)} ELSE @,
               !.retry = IF again THEN g ELSE @,
               !.stale = @ \/ (gone /\ d2 # d)]

\* fetchHotspotsWithRetry(attempt) after its await: the try branch on
\* success, the catch branch on an error that is no AbortError; the main
\* flow then goes on to fetchRisk, which rejects with AbortError at once
\* when the signal is aborted. ab: the aborted signals, j: the jitter.
AfterHotspots(S, g, outcome, j, ab) ==
  LET v == S.view[g]
      main == v.pc = "hot"
      gone == g \in ab
      d == S.display
      again == outcome = "e429" /\ v.attempt < maxAttempts - 1
      d2 == CASE outcome = "ok" ->
                   IF gone THEN d
                   ELSE [d EXCEPT !.hotspotsCells = g, !.hotspotsError = 0,
                                  !.hotspotsRateLimitHint = "null",
                                  !.anchorMeta = IF v.gotStatsMeta THEN @ ELSE g]
              [] again -> [d EXCEPT !.hotspotsRateLimitHint = "retrying"]
              [] outcome = "e429" /\ ~again ->
                   [d EXCEPT !.hotspotsRateLimitHint = "failed"]
              [] OTHER -> [d EXCEPT !.hotspotsError = g, !.hotspotsCells = 0]
      v2 == [v EXCEPT !.awaits = 0,
                      !.last = outcome,
                      !.rpc = IF again THEN "timer"
                              ELSE IF outcome = "e429" THEN "failed"
                              ELSE IF main THEN "none" ELSE "over",
                      !.attempt = IF again THEN @ + 1 ELSE @,
                      !.delay = IF again THEN backoffMs[v.attempt + 1] + j ELSE @,
                      !.pc = IF main THEN (IF gone THEN "done" ELSE "risk") ELSE @]
  IN [S EXCEPT !.view[g] = v2, !.display = d2,
               !.timers = IF again THEN @ \cup {RetryTimer(g)} ELSE @,
               !.retry = IF again THEN g ELSE @,
               !.stale = @ \/ (gone /\ d2 # d)]

\* fetchHotspotsWithRetry(attempt, useSignal) up to its await: the call of
\* fetchHotspotsGridCached; fresh data resolves the await at once
CallHotspots(S, g, sig, t, j, ab) ==
  {LET S1 == [S EXCEPT !.cache = r.cache, !.promises = r.promises,
                       !.view[g].calls = @ + 1]
   IN IF r.kind = "data" THEN AfterHotspots(S1, g, "ok", j, ab)
      ELSE [S1 EXCEPT !.view[g].awaits = r.promise]
     : r \in FetchHotspotsGridCached(S.cache, S.promises, S.view[g].bbox, sig, t)}

\* the requests whose fetchHotspotsWithRetry awaits a promise, oldest first
Awaiters(vw, pid) == {g \in Gens : vw[g].awaits = pid}

RECURSIVE RunAwaiters(_, _, _, _, _)
RunAwaiters(S, gs, outcome, j, ab) ==
  IF gs = {} THEN S
  ELSE LET g == CHOOSE x \in gs : \A y \in gs : x <= y
       IN RunAwaiters(AfterHotspots(S, g, outcome, j, ab), gs \ {g}, outcome, j, ab)

\* the effect's cleanup: ac.abort() rejects the fetches that carry the
\* signal and the awaits on them return, both timers are cleared
Cleanup(S, old) ==
  LET gonePs == AbortedBy(S.promises, old)
      ts == ClearTimeout(ClearTimeout(S.timers, "retry", S.retry), "loading", S.loading)
      v == S.view[old]
      own == v.pc = "hot" /\ v.awaits \in gonePs
      v2 == IF own THEN [v EXCEPT !.pc = "done", !.awaits = 0]
            ELSE IF v.pc \in {"stats", "risk", "forecast"}
            THEN [v EXCEPT !.pc = "done"]
            ELSE v
      vw == [S.view EXCEPT ![old] = v2]
  IN [S EXCEPT !.promises = [i \in 1..Len(S.promises) |->
                               IF i \in gonePs
                               THEN [S.promises[i] EXCEPT !.status = "rejected"]
                               ELSE S.promises[i]],
               !.cache = DeleteKeys(S.cache, {S.promises[i].key : i \in gonePs}),
               !.timers = ts,
               !.retry = 0,
               !.loading = 0,
               !.view = [g \in Gens |->
                           IF vw[g].rpc = "timer" /\ RetryTimer(g) \notin ts
                           THEN [vw[g] EXCEPT !.rpc = "over", !.delay = 0]
                           ELSE vw[g]]]

\* the debounced bounds change: the effect's cleanup, then its body up to
\* the first await of fetchViewportAnalytics
NewViewport(b) ==
  /\ requestGen < MaxGen
  /\ b # boundsRef
  /\ LET old == requestGen
         g == old + 1
         S1 == IF old = 0 THEN Cur ELSE Cleanup(Cur, old)
         S2 == [S1 EXCEPT
                  !.timers = ClearTimeout(ClearTimeout(@, "retry", S1.retry),
                                          "loading", S1.loading)
                             \cup {LoadingTimer(g)},
                  !.retry = 0,
                  !.loading = g,
                  !.display = [@ EXCEPT !.hotspotsError = 0,
                                        !.hotspotsRateLimitHint = "null",
                                        !.hotspotsLoading = TRUE,
                                        !.riskLoading = TRUE,
                                        !.showLoadingSpinner = FALSE],
                  !.view[g] = [NoView EXCEPT !.bbox = b, !.pc = "stats"]]
     IN /\ Assign(S2)
        /\ aborted' = IF old = 0 THEN aborted ELSE aborted \cup {old}
        /\ boundsRef' = b
        /\ requestGen' = g
        /\ hotspotsRequestGen' = g
  /\ UNCHANGED <<now, cacheVars, rateVars, pipeVars, keyVars, zoneVars, moreVars, lastHot>>

\* the stats, hour and day responses arrive: all ok, one not ok, or a
\* network error; unless it returned, fetchHotspotsWithRetry(0) is called
StatsSettle(g, outcome, j) ==
  /\ view[g].pc = "stats"
  /\ IF outcome = "nonok"
     THEN Assign([Cur EXCEPT !.view[g].pc = "done"])
     ELSE LET S1 == IF outcome = "ok"
                    THEN [Cur EXCEPT !.display.statsTotal = g,
                                     !.display.anchorMeta = g,
                                     !.view[g].gotStatsMeta = TRUE,
                                     !.view[g].pc = "hot"]
                    ELSE [Cur EXCEPT !.view[g].pc = "hot"]
          IN \E S2 \in CallHotspots(S1, g, g, now, j, aborted) : Assign(S2)
  /\ UNCHANGED <<now, cacheVars, rateVars, pipeVars, keyVars, zoneVars, moreVars, lastHot,
                 aborted, boundsRef, requestGen, hotspotsRequestGen>>

\* the hotspots response of a network request arrives: the cache's then /
\* catch, then the awaits on the promise resume
HotspotsSettle(pid, outcome, j) ==
  /\ pid \in 1..Len(promises)
  /\ promises[pid].status = "pending"
  /\ LET S1 == [Cur EXCEPT
                  !.promises[pid].status = Settled(outcome),
                  !.cache = IF outcome = "ok"
                            THEN OnFulfilled(@, pid, promises[pid].key, now)
                            ELSE OnRejected(@, promises[pid].key)]
     IN Assign(RunAwaiters(S1, Awaiters(view, pid), outcome, j, aborted))
  /\ UNCHANGED <<now, cacheVars, rateVars, pipeVars, keyVars, zoneVars, moreVars, lastHot,
                 aborted, boundsRef, requestGen, hotspotsRequestGen>>

\* the retry timeout fires
RetryTimerFire(g, j) ==
  /\ RetryTimer(g) \in timers
  /\ LET S1 == [Cur EXCEPT !.timers = @ \ {RetryTimer(g)}, !.retry = 0]
     IN IF boundsRef # view[g].bbox \/ hotspotsRequestGen # g
        THEN Assign([S1 EXCEPT !.view[g].rpc = "over", !.view[g].delay = 0])
        ELSE \E S2 \in CallHotspots([S1 EXCEPT !.view[g].rpc = "fetch",
                                                !.view[g].delay = 0],
                                     g, NoSignal, now, j, aborted) : Assign(S2)
  /\ UNCHANGED <<now, cacheVars, rateVars, pipeVars, keyVars, zoneVars, moreVars, lastHot,
                 aborted, boundsRef, requestGen, hotspotsRequestGen>>

\* the 150 ms loading-delay timeout fires
LoadingTimerFire(g) ==
  /\ LoadingTimer(g) \in timers
  /\ Assign([Cur EXCEPT !.timers = @ \ {LoadingTimer(g)},
                        !.display.showLoadingSpinner = TRUE,
                        !.stale = g \in aborted /\ ~display.showLoadingSpinner])
  /\ UNCHANGED <<now, cacheVars, rateVars, pipeVars, keyVars, zoneVars, moreVars, lastHot,
                 aborted, boundsRef, requestGen, hotspotsRequestGen>>

\* the risk response arrives
RiskSettle(g, ok) ==
  /\ view[g].pc = "risk"
  /\ Assign([Cur EXCEPT !.display.riskData = IF ok THEN g ELSE 0,
                        !.view[g].pc = "forecast"])
  /\ UNCHANGED <<now, cacheVars, rateVars, pipeVars, keyVars, zoneVars, moreVars, lastHot,
                 aborted, boundsRef, requestGen, hotspotsRequestGen>>

\* the forecast response arrives; finally: the loading state is reset
ForecastSettle(g, ok) ==
  /\ view[g].pc = "forecast"
  /\ Assign([Cur EXCEPT !.display.forecast30dData = IF ok THEN g ELSE 0,
                        !.display.hotspotsLoading = FALSE,
                        !.display.riskLoading = FALSE,
                        !.display.showLoadingSpinner = FALSE,
                        !.timers = ClearTimeout(@, "loading", loadingDelayRef),
                        !.loading = 0,
                        !.view[g].pc = "done"])
  /\ UNCHANGED <<now, cacheVars, rateVars, pipeVars, keyVars, zoneVars, moreVars, lastHot,
                 aborted, boundsRef, requestGen, hotspotsRequestGen>>

NextView ==
  \/ Tick(HotTTL)
  \/ \E b \in HotKeys : NewViewport(b)
  \/ \E g \in Gens, outcome \in {"ok", "nonok", "error"}, j \in Jitters :
       StatsSettle(g, outcome, j)
  \/ \E pid \in 1..(maxAttempts * MaxGen), outcome \in Outcomes, j \in Jitters :
       HotspotsSettle(pid, outcome, j)
  \/ \E g \in Gens, j \in Jitters : RetryTimerFire(g, j)
  \/ \E g \in Gens : LoadingTimerFire(g)
  \/ \E g \in Gens, ok \in BOOLEAN : RiskSettle(g, ok)
  \/ \E g \in Gens, ok \in BOOLEAN : ForecastSettle(g, ok)

SpecView == Init /\ [][NextView]_vars

\* C26: a step in which code of an aborted (older) viewport request runs
\* leaves the displayed state as it was.
C26_NoStaleUpdates == lastStale = FALSE

\* the delays a retry after `calls` attempts may wait
RetryDelays(calls) == {backoffMs[calls] + j : j \in 20..99}

\* C29: a viewport request calls the hotspots endpoint at most maxAttempts
\* times; a retry is pending only after a 429 with attempts left and waits
\* backoffMs[attempt] plus jitter; when the last attempt answers 429 the
\* hint becomes 'failed', no retry is pending and the request never makes
\* another attempt; a failure that is no 429 is reported as hotspotsError
\* and the request never makes another attempt.
C29_BoundedRetries ==
  /\ [](\A g \in Gens :
         /\ view[g].calls <= maxAttempts
         /\ RetryTimer(g) \in timers =>
              /\ view[g].rpc = "timer"
              /\ view[g].last = "e429"
              /\ view[g].calls < maxAttempts
              /\ view[g].delay \in RetryDelays(view[g].calls)
         /\ view[g].rpc = "failed" =>
              /\ view[g].last = "e429"
              /\ view[g].calls = maxAttempts
         /\ (view[g].last = "e429" /\ view[g].calls = maxAttempts
                                   /\ view[g].awaits = 0) =>
              view[g].rpc = "failed"
         /\ (view[g].rpc = "failed" \/ view[g].last = "e500") =>
              /\ view[g].awaits = 0
              /\ RetryTimer(g) \notin timers)
  /\ [][\A g \in Gens :
         /\ (view[g].rpc = "failed" \/ view[g].last = "e500") =>
              /\ view'[g].rpc = view[g].rpc
              /\ view'[g].last = view[g].last
              /\ view'[g].calls = view[g].calls
         /\ (view[g].rpc # "failed" /\ view'[g].rpc = "failed" /\ g = requestGen) =>
              display'.hotspotsRateLimitHint = "failed"
         /\ (view[g].last # "e500" /\ view'[g].last = "e500") =>
              /\ display'.hotspotsError # 0
              /\ g = requestGen => display'.hotspotsError = g]_vars

\* the latest request got 429 on each of its maxAttempts attempts and the
\* hint shows 'failed'
C29_Witness ==
  /\ requestGen \in Gens
  /\ view[requestGen].rpc = "failed"
  /\ view[requestGen].calls = maxAttempts
  /\ display.hotspotsRateLimitHint = "failed"
  /\ timers = {}

\* C30: once fetchViewportAnalytics of the latest request has returned,
\* after success or a failure that is no abort, the loading flags are
\* reset and the loading-delay timeout is not pending.
C30_LoadingReset ==
  (requestGen \in Gens /\ view[requestGen].pc = "done") =>
    /\ ~display.hotspotsLoading
    /\ ~display.riskLoading
    /\ LoadingTimer(requestGen) \notin timers

\* C31: hotspotsCache never holds more than HOTSPOTS_CACHE_MAX_ENTRIES
\* entries.
C31_CacheBounded == Cardinality(DOMAIN hotspotsCache) <= HotMaxEntries

(* ------------- SpecParams: hotspotsCacheKey on pairs of parameters ------- *)
HotspotsParams ==
  [bbox : {<<"b">>}, cell_m : {Undefined, Some(250)}, recent_days : {Undefined},
   baseline_days : {Undefined}, limit : {Undefined},
   start : {Undefined, Some(<<"5">>)}, end : {Undefined, Some(<<"5">>)},
   hour_start : {Undefined, Some(5)}, hour_end : {Undefined, Some(5)},
   violation_type : {Undefined, Some(<<"5">>)}]

\* the key and the query string of one more parameter object are computed;
\* it is kept with the one before
KeyParams(a) ==
  /\ keyed' = KeyedPair(keyed.b, a)
  /\ UNCHANGED <<now, cacheVars, rateVars, pipeVars, keyVars, zoneVars, hotVars,
                 viewVars, debounceVars>>

NextParams == \E a \in HotspotsParams : KeyParams(a)

SpecParams == Init /\ [][NextParams]_vars

\* C32: parameters with different query strings have different cache
\* keys.
C32_KeyInjective == keyed.ua # keyed.ub => keyed.ka # keyed.kb

\* C33: an entry of hotspotsCache never refers to a rejected fetch: an
\* entry in flight awaits a pending request of its key, an entry with data
\* holds the data of a fulfilled one; a call whose key has no entry in
\* flight and no fresh data starts a new request, and a call is answered
\* from the data only when their age is below HOTSPOTS_CACHE_TTL_MS.
C33_NoFailureCachedNoStaleData ==
  /\ \A key \in DOMAIN hotspotsCache :
       LET e == hotspotsCache[key]
       IN /\ e.promise \in 1..Len(promises)
          /\ promises[e.promise].key = key
          /\ promises[e.promise].status = IF e.inflight THEN "pending" ELSE "fulfilled"
  /\ lastHot.kind = "data" =>
       /\ lastHot.age < HotTTL
       /\ lastHot.promise <= lastHot.requests
  /\ (lastHot.kind = "promise" /\ lastHot.awaited = 0) =>
       lastHot.promise = lastHot.requests + 1

\* after the fetch of a key was rejected, the next call for the key started
\* a new request
C33_Witness ==
  /\ lastHot.kind = "promise"
  /\ lastHot.promise = lastHot.requests + 1
  /\ lastHot.promise = Len(promises)
  /\ \E i \in 1..lastHot.requests :
       /\ promises[i].key = lastHot.key
       /\ promises[i].status = "rejected"

\* C36: the signal of a network request is the signal of the call that
\* started it, whatever calls are deduplicated onto it later; aborting a
\* signal rejects exactly the pending requests started with it, for every
\* caller that holds their promise, and no other request.
C36_DedupedSharesOutcome ==
  [][/\ \A i \in 1..Len(promises) :
          /\ i <= Len(promises')
          /\ promises'[i].signal = promises[i].signal
          /\ promises'[i].key = promises[i].key
     /\ \A sig \in Signals :
          (sig \notin aborted /\ sig \in aborted') =>
            \A i \in 1..Len(promises) :
              promises[i].status = "pending" =>
                (promises'[i].status = "rejected" <=> promises[i].signal = sig)]_vars

\* a caller with its own signal was deduplicated onto a fetch started with
\* another signal; that signal was aborted and the shared promise is
\* rejected although the caller's signal is not aborted
C36_Witness ==
  /\ lastHot.awaited # 0
  /\ lastHot.promise = lastHot.awaited
  /\ lastHot.signal \in Signals
  /\ lastHot.signal \notin aborted
  /\ promises[lastHot.promise].signal \in Signals \ {lastHot.signal}
  /\ promises[lastHot.promise].signal \in aborted
  /\ promises[lastHot.promise].status = "rejected"

\* the generations whose retry timeout is set and has not fired
PendingRetries == {g \in Gens : RetryTimer(g) \in timers}

\* C34: at most one hotspots retry timeout is pending, and it belongs to
\* the latest viewport request.
C34_OneRetryTimerOfLatest ==
  /\ Cardinality(PendingRetries) <= 1
  /\ \A g \in PendingRetries : g = requestGen

(* ------------- SpecDebounce: onBoundsChange and its timeout -------------- *)
MapBounds(w, e) == [west |-> w, south |-> 0, east |-> e, north |-> 1]
Viewports == {MapBounds(1, 23), MapBounds(12, 3), MapBounds(2, 3)}

AssignDebounce(D) ==
  /\ prevBboxRef' = D.prev
  /\ firstBoundsSetRef' = D.first
  /\ bounds' = D.bounds
  /\ boundsTimeoutRef' = D.ref
  /\ boundsTimers' = D.timers
  /\ applied' = D.applied

\* the map reports a viewport (moveend / zoomend)
ReportBounds(b) ==
  /\ Len(reports) < MaxReports
  /\ reports' = Append(reports, b)
  /\ AssignDebounce(OnBoundsChange(DebounceState, b, Len(reports) + 1))
  /\ UNCHANGED <<now, cacheVars, rateVars, pipeVars, keyVars, zoneVars, hotVars,
                 viewVars, keyed>>

\* the 500 ms timeout fires: setBounds(b), the ref is reset
BoundsTimerFire(t) ==
  /\ t \in boundsTimers
  /\ bounds' = t.b
  /\ applied' = Append(applied, t.b)
  /\ boundsTimeoutRef' = 0
  /\ boundsTimers' = boundsTimers \ {t}
  /\ UNCHANGED <<now, cacheVars, rateVars, pipeVars, keyVars, zoneVars, hotVars,
                 viewVars, keyed, prevBboxRef, firstBoundsSetRef, reports>>

BoundsTimerFires == \E t \in boundsTimers : BoundsTimerFire(t)

NextDebounce ==
  \/ \E b \in Viewports : ReportBounds(b)
  \/ BoundsTimerFires

\* a timeout that is set fires after its 500 ms
SpecDebounce == Init /\ [][NextDebounce]_vars /\ WF_vars(BoundsTimerFires)

\* the last reported viewport, <<>> before the first report
LastReport == IF reports = <<>> THEN <<>> ELSE reports[Len(reports)]

\* C35: the first report is applied to bounds at once and sets no timeout;
\* a later report with a new bbox string leaves bounds alone and replaces
\* the pending timeout by one for its viewport, so at most one timeout is
\* pending and it holds the last report; bounds changes later only when
\* that timeout fires, to the last report; a report whose bbox string
\* equals the previous one changes nothing; with no timeout pending bounds
\* is the last report, and once the reports stop that is reached.
C35_Debounce ==
  /\ [](/\ Cardinality(boundsTimers) <= 1
        /\ \A t \in boundsTimers : t.b = LastReport /\ t.id = boundsTimeoutRef
        /\ (reports # <<>> /\ boundsTimers = {}) => bounds = LastReport
        /\ reports # <<>> => prevBboxRef = BboxString(LastReport))
  /\ [][/\ (reports = <<>> /\ reports' # <<>>) =>
            (bounds' = reports'[1] /\ boundsTimers' = {})
        /\ (reports # <<>> /\ reports' # reports) =>
            /\ bounds' = bounds
            /\ IF BboxString(reports'[Len(reports')]) = prevBboxRef
               THEN UNCHANGED <<prevBboxRef, firstBoundsSetRef, boundsTimeoutRef,
                                boundsTimers>>
               ELSE /\ boundsTimers' = {[id |-> Len(reports'), b |-> reports'[Len(reports')]]}
                    /\ boundsTimeoutRef' = Len(reports')
        /\ (reports # <<>> /\ bounds' # bounds) =>
            (reports' = reports /\ bounds' = LastReport)]_vars
  /\ (Len(reports) = MaxReports) ~> (boundsTimers = {} /\ bounds = LastReport)

\* a burst of three later reports, one of them repeating its predecessor:
\* only the first report and the last one were applied
C35_Witness ==
  /\ Len(reports) = MaxReports
  /\ reports[2] # reports[1]
  /\ reports[3] = reports[2]
  /\ reports[4] # reports[3]
  /\ applied = <<reports[1], reports[4]>>
  /\ bounds = reports[4]
  /\ boundsTimers = {}

====
